---------------------------- MODULE Spec2Model ----------------------------
(***************************************************************************)
(* A model of dreye's Signal (src/dreye/core/signal.py), of the container  *)
(* base class (src/dreye/utilities/abstract.py) and of the calibration     *)
(* mapping of MeasuredSpectraContainer                                     *)
(* (src/dreye/core/spectral_measurement.py).                               *)
(*                                                                         *)
(* Numbers are exact rationals [n, d] (d > 0, lowest terms); d = 0 is NaN. *)
(* Arrays are [nd, v]: nd = 1 with v a sequence of numbers, nd = 2 with v  *)
(* a sequence of rows.  None is the empty tuple and a present optional     *)
(* value x is <<x>>.                                                       *)
(***************************************************************************)
EXTENDS Integers, Sequences, FiniteSets, TLC

VARIABLES
    cur,        \* the Signal the next operation is called on
    pre,        \* that Signal as it was before the last operation
    post,       \* the receiver of the last operation, after it
    out,        \* what the last operation returned or raised
    steps,      \* operations applied so far
    container,  \* _AbstractContainer._container
    cache,      \* the container's _init_keys attributes
    builds,     \* mapper lists built since the last membership change
    cout        \* what the last container operation returned or raised

vars == <<cur, pre, post, out, steps, container, cache, builds, cout>>

sigVars == <<cur, pre, post, out, steps>>
conVars == <<container, cache, builds, cout>>

---------------------------------------------------------------------------
(* Numbers *)

None == <<>>
Some(x) == <<x>>
IsNone(o) == o = <<>>
Get(o) == o[1]

\* F applied to the value of e, which is evaluated once
Bind(e, F(_)) == CHOOSE r \in {F(x) : x \in {e}} : TRUE

Abs(x) == IF x < 0 THEN -x ELSE x

RECURSIVE GCD(_, _)
GCD(a, b) == IF b = 0 THEN a ELSE GCD(b, a % b)

NaN == [n |-> 0, d |-> 0]

\* n/d in lowest terms with a positive denominator; x/0 is NaN
MkRat(n, d) ==
    IF d = 0 THEN NaN
    ELSE LET s == IF d < 0 THEN -1 ELSE 1
             g == GCD(Abs(n), Abs(d))
         IN  [n |-> (s * n) \div g, d |-> (s * d) \div g]

R(i) == [n |-> i, d |-> 1]
IsNaN(a) == a.d = 0

RAdd(a, b) == IF IsNaN(a) \/ IsNaN(b) THEN NaN
              ELSE MkRat(a.n * b.d + b.n * a.d, a.d * b.d)
RSub(a, b) == IF IsNaN(a) \/ IsNaN(b) THEN NaN
              ELSE MkRat(a.n * b.d - b.n * a.d, a.d * b.d)
RMul(a, b) == IF IsNaN(a) \/ IsNaN(b) THEN NaN
              ELSE MkRat(a.n * b.n, a.d * b.d)
RDiv(a, b) == IF IsNaN(a) \/ IsNaN(b) THEN NaN
              ELSE MkRat(a.n * b.d, a.d * b.n)

\* comparisons with NaN are false, as for floats
RLt(a, b) == ~IsNaN(a) /\ ~IsNaN(b) /\ a.n * b.d < b.n * a.d
RLe(a, b) == ~IsNaN(a) /\ ~IsNaN(b) /\ a.n * b.d <= b.n * a.d
RGt(a, b) == RLt(b, a)
RGe(a, b) == RLe(b, a)

\* np.maximum / np.minimum: NaN propagates
RMax(a, b) == IF IsNaN(a) \/ IsNaN(b) THEN NaN ELSE IF RLt(a, b) THEN b ELSE a
RMin(a, b) == IF IsNaN(a) \/ IsNaN(b) THEN NaN ELSE IF RLt(b, a) THEN b ELSE a

\* truncation toward zero (an integer dtype applied to a float)
RTrunc(a) == IF a.n >= 0 THEN R(a.n \div a.d) ELSE R(-((-a.n) \div a.d))

RSeq(s) == [i \in 1..Len(s) |-> R(s[i])]

RECURSIVE SeqMinR(_), SeqMaxR(_)
\* np.min / np.max of a non-empty sequence
SeqMinR(s) == IF Len(s) = 1 THEN s[1] ELSE RMin(s[1], SeqMinR(Tail(s)))
SeqMaxR(s) == IF Len(s) = 1 THEN s[1] ELSE RMax(s[1], SeqMaxR(Tail(s)))

---------------------------------------------------------------------------
(* Arrays *)

Arr1(s) == [nd |-> 1, v |-> s]
Arr2(rows) == [nd |-> 2, v |-> rows]

\* ndarray.shape
Shape(a) == IF a.nd = 1 THEN <<Len(a.v)>> ELSE <<Len(a.v), Len(a.v[1])>>

\* ndarray.T of a 2-D array
Transpose(a) ==
    Arr2([j \in 1..Len(a.v[1]) |-> [i \in 1..Len(a.v) |-> a.v[i][j]]])

\* the 1-D slice of a 2-D array at position k of the axis other than `axis`
\* (axis 0: column k runs along axis 0; axis 1: row k runs along axis 1)
Lane(a, axis, k) ==
    IF axis = 0 THEN [i \in 1..Len(a.v) |-> a.v[i][k]] ELSE a.v[k]

\* the 2-D array whose slices along `axis` are lanes[1..]
FromLanes(lanes, axis) ==
    IF axis = 1 THEN Arr2(lanes) ELSE Transpose(Arr2(lanes))

\* np.concatenate([a, b], axis)
Concat(a, b, axis) ==
    IF a.nd = 1 THEN Arr1(a.v \o b.v)
    ELSE IF axis = 0 THEN Arr2(a.v \o b.v)
    ELSE Arr2([i \in 1..Len(a.v) |-> a.v[i] \o b.v[i]])

\* whether np.concatenate([a, b], axis) is defined
CanConcat(a, b, axis) ==
    /\ a.nd = b.nd
    /\ a.nd = 2 => Shape(a)[2 - axis] = Shape(b)[2 - axis]


---------------------------------------------------------------------------
(* Signal: fields and derived properties *)

\* clip bounds: None, a scalar, or one value per channel
NoClip == [ck |-> "none"]
ScalarClip(x) == [ck |-> "scalar", sv |-> x]
ListClip(s) == [ck |-> "list", lv |-> s]

\* Signal.ndim / shape / domain_axis / other_axis / other_len / domain_len
Ndim(s) == s.values.nd
OtherAxis(s) == IF Ndim(s) = 1 THEN None ELSE (s.domain_axis + 1) % 2
OtherLen(s) == IF Ndim(s) = 1 THEN 1 ELSE Shape(s.values)[OtherAxis(s) + 1]
DomainLen(s) == Shape(s.values)[s.domain_axis + 1]

\* Signal._check_clip_value: "ok" or the exception raised
CheckClipValue(nd, otherLen, clip) ==
    IF clip.ck = "list"
    THEN IF nd = 2
         THEN IF Len(clip.lv) = otherLen THEN "ok" ELSE "AssertionError"
         ELSE IF Len(clip.lv) # otherLen THEN "ValueError" ELSE "ok"
    ELSE "ok"

\* interpolator_kwargs as stored: a dict; axis = -1 when the key is absent
Kwargs(boundsError, axis) == [bounds_error |-> boundsError, axis |-> axis]

\* Signal.__init__: the fields after construction (the cache starts unset)
NewSignal(values, domain, domainAxis, labels, smin, smax, dmin, dmax, kw) ==
    [values |-> values, domain |-> domain, ddtype |-> "float64",
     dtype |-> "float64", interpolator |-> "interp1d", kwargs |-> kw,
     interpolate |-> None, labels |-> labels, domain_axis |-> domainAxis,
     signal_min |-> smin, signal_max |-> smax,
     domain_min |-> dmin, domain_max |-> dmax]

\* whether Signal.__init__ accepts the clip bounds (lines 159-160)
InitAccepts(s) ==
    /\ CheckClipValue(Ndim(s), OtherLen(s), s.signal_min) = "ok"
    /\ CheckClipValue(Ndim(s), OtherLen(s), s.signal_max) = "ok"

\* what an operation on a Signal returned or raised
Outcome(op, err, kind, same, copyFlag, q) ==
    [op |-> op, raised |-> err # "", err |-> err, kind |-> kind,
     same |-> same, view |-> IF same THEN "same" ELSE "none",
     copy |-> copyFlag, q |-> q]

NoOutcome == Outcome("init", "", "none", FALSE, TRUE, <<>>)

---------------------------------------------------------------------------
(* Signal: the setters and the cached interpolate *)

Callables == {"interp1d", "PchipInterpolator"}
InterpolatorInputs == Callables \cup {"None", "not_callable"}

DtypeCallables == {"float64", "int64"}
DtypeStrings == {"str:float64", "str:int64", "str:bogus"}
DtypeInputs == DtypeCallables \cup DtypeStrings \cup {"None", "not_callable"}

KwargsInputs ==
    {[ik |-> "none"], [ik |-> "other"]}
        \cup {[ik |-> "dict", d |-> Kwargs(b, -1)] : b \in BOOLEAN}

\* dtype(values): the conversion a callable dtype applies to an array
DtypeApply(dt, a) ==
    IF dt = "int64"
    THEN IF a.nd = 1
         THEN Arr1([i \in 1..Len(a.v) |-> RTrunc(a.v[i])])
         ELSE Arr2([i \in 1..Len(a.v) |->
                     [j \in 1..Len(a.v[i]) |-> RTrunc(a.v[i][j])]])
    ELSE a

\* Domain.dtype setter: the outcomes it may have for a value
DomainDtypeOutcomes(old, value) ==
    IF value \in DtypeCallables
    THEN {[raised |-> FALSE, ddtype |-> value]}
    ELSE {[raised |-> TRUE, ddtype |-> old],
          [raised |-> FALSE, ddtype |-> old],
          [raised |-> FALSE, ddtype |-> value]}

SetterDone(op, err) ==
    /\ pre' = cur
    /\ post' = cur'
    /\ out' = Outcome(op, err, "none", FALSE, TRUE, <<>>)
    /\ UNCHANGED <<steps, conVars>>

\* values.setter
SetValues(value) ==
    /\ IF Shape(value) # Shape(cur.values)
       THEN /\ cur' = cur
            /\ SetterDone("values", "DreyeError")
       ELSE /\ cur' = [cur EXCEPT !.values = value]
            /\ SetterDone("values", "")

\* interpolator.setter
SetInterpolator(value) ==
    /\ IF value = "None"
       THEN /\ cur' = cur
            /\ SetterDone("interpolator", "")
       ELSE IF value \in Callables
       THEN /\ cur' = [cur EXCEPT !.interpolator = value,
                                  !.interpolate = None]
            /\ SetterDone("interpolator", "")
       ELSE /\ cur' = cur
            /\ SetterDone("interpolator", "TypeError")

\* interpolator_kwargs.setter
SetInterpolatorKwargs(value) ==
    /\ IF value.ik = "none"
       THEN /\ cur' = cur
            /\ SetterDone("interpolator_kwargs", "")
       ELSE IF value.ik = "dict"
       THEN /\ cur' = [cur EXCEPT !.kwargs = value.d,
                                  !.interpolate = None]
            /\ SetterDone("interpolator_kwargs", "")
       ELSE /\ cur' = cur
            /\ SetterDone("interpolator_kwargs", "TypeError")

\* dtype.setter
SetDtype(value) ==
    IF value = "str:bogus"
    THEN /\ cur' = cur
         /\ SetterDone("dtype", "TypeError")
    ELSE IF value = "not_callable"
    THEN /\ cur' = cur
         /\ SetterDone("dtype", "AttributeError")
    ELSE LET dt == IF value = "str:float64" THEN "float64"
                   ELSE IF value = "str:int64" THEN "int64"
                   ELSE value
         IN  \E o \in DomainDtypeOutcomes(cur.ddtype, dt) :
               IF o.raised
               THEN /\ cur' = [cur EXCEPT !.dtype = dt]
                    /\ SetterDone("dtype", "TypeError")
               ELSE IF dt = "None"
               THEN /\ cur' = [cur EXCEPT !.dtype = dt,
                                          !.ddtype = o.ddtype]
                    /\ SetterDone("dtype", "TypeError")
               ELSE /\ cur' = [cur EXCEPT !.dtype = dt,
                                          !.ddtype = o.ddtype,
                                          !.values = DtypeApply(dt, cur.values)]
                    /\ SetterDone("dtype", "")

\* interpolator_kwargs getter: writes the axis key into the stored dict
WithAxis(s) == [s EXCEPT !.kwargs.axis = s.domain_axis]

\* what the interpolation function is built from (lines 361-365)
BuiltFrom(s) ==
    [vals |-> s.values, dom |-> s.domain,
     interpolator |-> s.interpolator, kwargs |-> s.kwargs]

\* the interpolator is called with every key of interpolator_kwargs (line
\* 361-365), bounds_error among them; PchipInterpolator(x, y, axis,
\* extrapolate) has no such parameter
InterpolateErr(s) ==
    IF IsNone(s.interpolate) /\ s.interpolator = "PchipInterpolator"
    THEN "TypeError" ELSE ""

\* interpolate getter: the Signal after the access; interpolator_kwargs is
\* read, and with it the axis key written, before the interpolator is called
Interpolated(s) ==
    IF ~IsNone(s.interpolate) THEN s
    ELSE IF InterpolateErr(s) # "" THEN WithAxis(s)
    ELSE [WithAxis(s) EXCEPT !.interpolate = Some(BuiltFrom(WithAxis(s)))]

ReadInterpolate ==
    /\ cur' = Interpolated(cur)
    /\ SetterDone("interpolate", InterpolateErr(cur))

ReadInterpolatorKwargs ==
    /\ cur' = WithAxis(cur)
    /\ SetterDone("interpolator_kwargs.get", "")

\* values the setters are tried with
ValueInputs ==
    {Arr1(RSeq(<<1, 2, 3>>)), Arr1(RSeq(<<4, 5, 6>>)),
     Arr1(<<MkRat(3, 2), R(0), MkRat(-5, 2)>>), Arr1(RSeq(<<1, 2>>)),
     Arr2(<<RSeq(<<1, 4>>), RSeq(<<2, 5>>), RSeq(<<3, 6>>)>>),
     Arr2(<<RSeq(<<0, 0>>), RSeq(<<7, 7>>), RSeq(<<1, 1>>)>>),
     Arr2(<<RSeq(<<1, 2, 3>>), RSeq(<<4, 5, 6>>)>>)}

SetterSignals ==
    {NewSignal(Arr1(RSeq(<<1, 2, 3>>)), <<0, 2, 4>>, 0, <<"s">>,
               NoClip, NoClip, None, None, Kwargs(FALSE, -1)),
     NewSignal(Arr2(<<RSeq(<<1, 4>>), RSeq(<<2, 5>>), RSeq(<<3, 6>>)>>),
               <<0, 2, 4>>, 0, <<"a", "b">>,
               ScalarClip(R(0)), NoClip, None, None, Kwargs(TRUE, -1))}

ConIdle ==
    /\ container = <<>>
    /\ cache = <<>>
    /\ builds = 0
    /\ cout = <<>>

InitSetters ==
    /\ cur \in SetterSignals
    /\ pre = cur
    /\ post = cur
    /\ out = NoOutcome
    /\ steps = 0
    /\ ConIdle

NextSetters ==
    \/ \E v \in ValueInputs : SetValues(v)
    \/ \E x \in InterpolatorInputs : SetInterpolator(x)
    \/ \E x \in KwargsInputs : SetInterpolatorKwargs(x)
    \/ \E x \in DtypeInputs : SetDtype(x)
    \/ ReadInterpolate
    \/ ReadInterpolatorKwargs

SpecSetters == InitSetters /\ [][NextSetters]_vars

SetterOps == {"values", "interpolator", "interpolator_kwargs", "dtype"}

\* C1: whenever the cached interpolation function is set, it was built from
\* the Signal's current values, domain, interpolator and interpolator_kwargs.
C1_CacheIsCurrent ==
    ~IsNone(cur.interpolate) => Get(cur.interpolate) = BuiltFrom(cur)

\* C3: a setter that raises leaves every field of the Signal as it was.
C3_FailedSetterChangesNothing ==
    (out.op \in SetterOps /\ out.raised) => cur = pre

---------------------------------------------------------------------------
(* Numerical helpers of the calibration mapping *)

RECURSIVE SumTrapz(_, _, _)
\* np.trapz(y, x) for 1-D y over the integer coordinates x
SumTrapz(y, x, i) ==
    IF i >= Len(x) THEN R(0)
    ELSE RAdd(RMul(MkRat(x[i + 1] - x[i], 2), RAdd(y[i], y[i + 1])),
              SumTrapz(y, x, i + 1))

RECURSIVE SumLeft(_, _, _)
\* the sum of the left rectangles under y over x
SumLeft(y, x, i) ==
    IF i >= Len(x) THEN R(0)
    ELSE RAdd(RMul(R(x[i + 1] - x[i]), y[i]), SumLeft(y, x, i + 1))

Trapz_LeftSum(y, x) == SumLeft(y, x, 1)

Trapz(y, x) == SumTrapz(y, x, 1)

Reverse(s) == [i \in 1..Len(s) |-> s[Len(s) + 1 - i]]

\* pool-adjacent-violators: blocks are [sum, cnt]; the last two blocks are
\* merged while the earlier one has the larger mean
RECURSIVE PoolLast(_)
PoolLast(bs) ==
    LET n == Len(bs) IN
    IF n >= 2 /\ RGt(RDiv(bs[n - 1].sum, R(bs[n - 1].cnt)),
                     RDiv(bs[n].sum, R(bs[n].cnt)))
    THEN PoolLast(SubSeq(bs, 1, n - 2) \o
                  <<[sum |-> RAdd(bs[n - 1].sum, bs[n].sum),
                     cnt |-> bs[n - 1].cnt + bs[n].cnt]>>)
    ELSE bs

RECURSIVE PavaBlocks(_, _)
PavaBlocks(bs, rest) ==
    IF rest = <<>> THEN bs
    ELSE PavaBlocks(PoolLast(bs \o <<[sum |-> rest[1], cnt |-> 1]>>),
                    Tail(rest))

RECURSIVE Unblock(_)
Unblock(bs) ==
    IF bs = <<>> THEN <<>>
    ELSE [i \in 1..bs[1].cnt |-> RDiv(bs[1].sum, R(bs[1].cnt))]
             \o Unblock(Tail(bs))

\* the non-decreasing least-squares fit of y
PavaIncreasing(y) == Unblock(PavaBlocks(<<>>, y))

\* the measured values clipped to the bounds, without the monotone fit
IsotonicRegression_Unfitted(y, ymin, ymax, increasing) ==
    [i \in 1..Len(y) |-> RMin(RMax(y[i], ymin), ymax)]

\* sklearn isotonic_regression(y, y_min, y_max, increasing): the monotone fit
\* (computed on the reversed sequence when decreasing), clipped to the bounds
IsotonicRegression(y, ymin, ymax, increasing) ==
    LET fit == IF increasing THEN PavaIncreasing(y)
               ELSE Reverse(PavaIncreasing(Reverse(y)))
    IN  [i \in 1..Len(fit) |-> RMin(RMax(fit[i], ymin), ymax)]

RECURSIVE InsertStable(_, _)
\* insert pair p after every pair whose key is <= p's key
InsertStable(sorted, p) ==
    IF sorted = <<>> THEN <<p>>
    ELSE IF RLt(p.x, sorted[1].x) THEN <<p>> \o sorted
    ELSE <<sorted[1]>> \o InsertStable(Tail(sorted), p)

RECURSIVE StableSort(_, _)
StableSort(acc, ps) ==
    IF ps = <<>> THEN acc
    ELSE StableSort(InsertStable(acc, ps[1]), Tail(ps))

\* interp1d(x, y, bounds_error=False, fill_value=(below, above)): the points
\* sorted by x (stable), and the two fill values
Interp1d(x, y, below, above) ==
    LET ps == StableSort(<<>>, [i \in 1..Len(x) |-> [x |-> x[i], y |-> y[i]]])
    IN  [xs |-> [i \in 1..Len(ps) |-> ps[i].x],
         ys |-> [i \in 1..Len(ps) |-> ps[i].y],
         below |-> below, above |-> above]

\* the last index j with xs[j] <= q (q lies within xs)
LastLe(xs, q) ==
    CHOOSE j \in 1..Len(xs) :
        /\ RLe(xs[j], q)
        /\ \A k \in (j + 1)..Len(xs) : ~RLe(xs[k], q)

\* calling the interpolant at one query: the fill values outside the fitted
\* range, otherwise linear interpolation between the neighbouring points
InterpCall(f, q) ==
    LET n == Len(f.xs) IN
    IF RLt(q, f.xs[1]) THEN f.below
    ELSE IF RGt(q, f.xs[n]) THEN f.above
    ELSE LET j == LastLe(f.xs, q) IN
         IF j = n \/ f.xs[j] = q THEN f.ys[j]
         ELSE RAdd(f.ys[j],
                   RMul(RDiv(RSub(f.ys[j + 1], f.ys[j]),
                             RSub(f.xs[j + 1], f.xs[j])),
                        RSub(q, f.xs[j])))

\* np.clip(x, a_min, a_max) on one element
Clip(x, lo, hi) == RMin(RMax(x, lo), hi)

---------------------------------------------------------------------------
(* MeasuredSpectrum elements *)

\* A MeasuredSpectrum: spectra[k] is the spectrum over the wavelengths wl
\* measured at control input labels[k]; the boundaries are optional
Element(name, spectra, zb, mb, zil) ==
    [name |-> name, wl |-> <<0, 2>>, labels |-> <<1, 2, 3>>,
     spectra |-> spectra, zero_boundary |-> zb, max_boundary |-> mb,
     zero_is_lower |-> zil]

\* the named elements containers are filled with
Fixtures ==
    <<Element("up", <<RSeq(<<0, 1>>), RSeq(<<2, 1>>), RSeq(<<1, 1>>)>>,
              Some(R(0)), Some(R(3)), TRUE),
      Element("down", <<RSeq(<<2, 2>>), RSeq(<<1, 1>>), RSeq(<<0, 0>>)>>,
              Some(R(3)), Some(R(1)), FALSE),
      Element("free", <<RSeq(<<1, 0>>), RSeq(<<1, 1>>), RSeq(<<2, 2>>)>>,
              None, None, TRUE),
      Element("flip", <<RSeq(<<1, 0>>), RSeq(<<1, 1>>), RSeq(<<2, 2>>)>>,
              Some(R(3)), Some(R(1)), TRUE),
      Element("far", <<RSeq(<<2, 2>>), RSeq(<<1, 1>>), RSeq(<<1, 0>>)>>,
              Some(R(5)), Some(R(0)), FALSE)>>

\* the intensities, boundaries and polarities of the channels the fit is
\* examined on: every combination is one channel measured at the control
\* inputs 1, 2, 3
FitLevels == <<1, 2, 3>>
ZeroBoundaries == <<None, Some(R(0)), Some(R(1)), Some(R(3)), Some(R(5))>>
MaxBoundaries == <<None, Some(R(1)), Some(R(3)), Some(R(5))>>
Polarities == <<TRUE, FALSE>>

\* the spectrum over the wavelengths 0, 2 whose integral is y
SpectrumOf(y) == <<R(y), R(0)>>

\* the k-th combination (from 0), k read as a mixed-radix number
Combination(k) ==
    LET nl == Len(FitLevels)
        np == Len(Polarities)
        nm == Len(MaxBoundaries)
        nz == Len(ZeroBoundaries)
        k1 == k \div np
        k2 == k1 \div nm
        k3 == k2 \div nz
        k4 == k3 \div nl
        k5 == k4 \div nl
    IN  Element("g",
                <<SpectrumOf(FitLevels[(k5 % nl) + 1]),
                  SpectrumOf(FitLevels[(k4 % nl) + 1]),
                  SpectrumOf(FitLevels[(k3 % nl) + 1])>>,
                ZeroBoundaries[(k2 % nz) + 1],
                MaxBoundaries[(k1 % nm) + 1],
                Polarities[(k % np) + 1])

Combinations ==
    Len(FitLevels) * Len(FitLevels) * Len(FitLevels) * Len(ZeroBoundaries)
        * Len(MaxBoundaries) * Len(Polarities)

\* every MeasuredSpectrum of the model: the named ones, then the combinations
Elements ==
    Fixtures \o [i \in 1..Combinations |-> Combination(i - 1)]

\* 0 is an object that is not a MeasuredSpectrum
NotAnElement == 0
ElementIds == 1..Len(Elements)
FixtureIds == 1..Len(Fixtures)
CombinationIds == ElementIds \ FixtureIds

\* isinstance(ele, self._allowed_instances)
IsAllowed(e) == e \in ElementIds

\* _AbstractContainer._are_instances
AreInstances(l) == \A i \in 1..Len(l) : IsAllowed(l[i])

\* Signal.integral of an element: one integral per control input
Integral(e) == [k \in 1..Len(e.spectra) |-> Trapz(e.spectra[k], e.wl)]

---------------------------------------------------------------------------
(* MeasuredSpectraContainer: the cached derived values *)

\* _AbstractContainer._init_attrs: every key of _init_keys set to None
InitAttrs ==
    [zil |-> None, zb |-> None, mb |-> None, il |-> None, i |-> None,
     nsl |-> None, ns |-> None, mapper |-> None]

Eles(c) == [j \in 1..Len(c) |-> Elements[c[j]]]

\* zero_is_lower (lines 381-391)
WithZil(c, k) ==
    IF IsNone(k.zil)
    THEN [k EXCEPT !.zil = Some([j \in 1..Len(c) |-> Eles(c)[j].zero_is_lower])]
    ELSE k

\* zero_boundary (lines 393-406)
WithZb(c, k) ==
    IF IsNone(k.zb)
    THEN [k EXCEPT !.zb = Some([j \in 1..Len(c) |-> Eles(c)[j].zero_boundary])]
    ELSE k

\* max_boundary (lines 408-421)
WithMb(c, k) ==
    IF IsNone(k.mb)
    THEN [k EXCEPT !.mb = Some([j \in 1..Len(c) |-> Eles(c)[j].max_boundary])]
    ELSE k

\* intensities_list (lines 346-362): per element the 1-D Signal of its
\* integrals over its control inputs
WithIl(c, k) ==
    IF IsNone(k.il)
    THEN [k EXCEPT !.il = Some([j \in 1..Len(c) |->
                                 [dom |-> Eles(c)[j].labels,
                                  vals |-> Integral(Eles(c)[j]),
                                  label |-> Eles(c)[j].name]])]
    ELSE k

\* signal._expand_dims(1) / signal.concat(ele) over signals of one domain:
\* the columns side by side
Stack(sigs) ==
    [dom |-> sigs[1].dom,
     cols |-> [j \in 1..Len(sigs) |-> sigs[j].vals],
     labels |-> [j \in 1..Len(sigs) |-> sigs[j].label]]

\* intensities (lines 364-379): [k, err]
WithI(c, k) ==
    Bind(WithIl(c, k), LAMBDA k1 :
        IF ~IsNone(k1.i) THEN [k |-> k1, err |-> ""]
        ELSE IF Get(k1.il) = <<>> THEN [k |-> k1, err |-> "IndexError"]
        ELSE [k |-> [k1 EXCEPT !.i = Some(Stack(Get(k1.il)))], err |-> ""])

\* ele.mean(axis=ele.other_axis).normalized_signal: the mean spectrum over
\* the control inputs divided by its integral
NormalizedMean(e) ==
    LET n == Len(e.spectra)
        total[k \in 0..n] ==
            IF k = 0 THEN [w \in 1..Len(e.wl) |-> R(0)]
            ELSE [w \in 1..Len(e.wl) |-> RAdd(total[k - 1][w], e.spectra[k][w])]
        mean == [w \in 1..Len(e.wl) |-> RDiv(total[n][w], R(n))]
    IN  [w \in 1..Len(e.wl) |-> RDiv(mean[w], Trapz(mean, e.wl))]

\* normalized_spectrum_list (lines 493-503)
WithNsl(c, k) ==
    IF IsNone(k.nsl)
    THEN [k EXCEPT !.nsl = Some([j \in 1..Len(c) |->
                                  [dom |-> Eles(c)[j].wl,
                                   vals |-> NormalizedMean(Eles(c)[j]),
                                   label |-> Eles(c)[j].name]])]
    ELSE k

\* normalized_spectrum (lines 505-515): [k, err]
WithNs(c, k) ==
    Bind(WithNsl(c, k), LAMBDA k1 :
        IF ~IsNone(k1.ns) THEN [k |-> k1, err |-> ""]
        ELSE IF Get(k1.nsl) = <<>> THEN [k |-> k1, err |-> "IndexError"]
        ELSE [k |-> [k1 EXCEPT !.ns = Some(Stack(Get(k1.nsl)))], err |-> ""])

\* bounds (lines 441-456): [k, err, lo, hi].  np.isnan raises TypeError on
\* the object array a None boundary makes; an empty container has no column
\* 0 to index
Bounds(c, k) ==
    Bind(WithZb(c, WithIl(c, k)), LAMBDA k1 :
        LET il == Get(k1.il)
            zb == Get(k1.zb)
        IN  IF \E j \in 1..Len(zb) : IsNone(zb[j])
            THEN [k |-> k1, err |-> "TypeError", lo |-> <<>>, hi |-> <<>>]
            ELSE IF il = <<>> \/ Len(zb) # Len(il)
            THEN [k |-> k1, err |-> "IndexError", lo |-> <<>>, hi |-> <<>>]
            ELSE [k |-> k1, err |-> "",
                  lo |-> [j \in 1..Len(il) |->
                            IF IsNaN(Get(zb[j])) THEN SeqMinR(il[j].vals)
                            ELSE R(0)],
                  hi |-> [j \in 1..Len(il) |-> SeqMaxR(il[j].vals)]])

\* the highest control input tested
Starts_Highest(c) ==
    [j \in 1..Len(c) |-> R(Eles(c)[j].labels[Len(Eles(c)[j].labels)])]

\* starts / ends (lines 423-439): the lowest and highest control input tested
Starts(c) == [j \in 1..Len(c) |-> R(Eles(c)[j].labels[1])]
Ends(c) == [j \in 1..Len(c) |->
              R(Eles(c)[j].labels[Len(Eles(c)[j].labels)])]

\* a boundary array element assigned into a float array: None becomes NaN
AsFloat(o) == IF IsNone(o) THEN NaN ELSE Get(o)

\* the boundaries of the channels picked by polarity: first where zero is
\* lower, second elsewhere; NaN replaced by the tested setting
PickedBoundaries(zil, first, second, tested) ==
    [j \in 1..Len(zil) |->
        LET b == AsFloat(IF zil[j] THEN first[j] ELSE second[j])
        IN  IF IsNaN(b) THEN tested[j] ELSE b]

\* lower_boundary (lines 465-477): [k, err, val].  zero_is_lower and
\* zero_boundary are read before max_boundary.  The arrays of an empty
\* container are float arrays: zero_is_lower is no index then (IndexError).
\* Index arrays of other lengths than the arrays they index raise
\* IndexError as well.
LowerBoundary(c, k) ==
    Bind(WithZb(c, WithZil(c, k)), LAMBDA k1 :
        IF Get(k1.zil) = <<>> \/ Len(Get(k1.zb)) # Len(Get(k1.zil))
        THEN [k |-> k1, err |-> "IndexError", val |-> <<>>]
        ELSE Bind(WithMb(c, k1), LAMBDA k2 :
            IF Len(Get(k2.mb)) # Len(Get(k2.zil))
                  \/ Len(c) # Len(Get(k2.zil))
            THEN [k |-> k2, err |-> "IndexError", val |-> <<>>]
            ELSE [k |-> k2, err |-> "",
                  val |-> PickedBoundaries(Get(k2.zil), Get(k2.zb),
                                           Get(k2.mb), Starts(c))]))

\* upper_boundary (lines 479-491): [k, err, val].  zero_boundary and
\* zero_is_lower are read first; ~zero_is_lower is not defined for the float
\* array of an empty container (TypeError).
UpperBoundary(c, k) ==
    Bind(WithZil(c, WithZb(c, k)), LAMBDA k1 :
        IF Get(k1.zil) = <<>>
        THEN [k |-> k1, err |-> "TypeError", val |-> <<>>]
        ELSE IF Len(Get(k1.zb)) # Len(Get(k1.zil))
        THEN [k |-> k1, err |-> "IndexError", val |-> <<>>]
        ELSE Bind(WithMb(c, k1), LAMBDA k2 :
            IF Len(Get(k2.mb)) # Len(Get(k2.zil))
                  \/ Len(c) # Len(Get(k2.zil))
            THEN [k |-> k2, err |-> "IndexError", val |-> <<>>]
            ELSE [k |-> k2, err |-> "",
                  val |-> PickedBoundaries(Get(k2.zil), Get(k2.mb),
                                           Get(k2.zb), Ends(c))]))

\* domain_bounds (lines 458-463), and lower_boundary followed by
\* upper_boundary as _post_mapping reads them: [k, err, lower, upper]
Boundaries(c, k) ==
    Bind(LowerBoundary(c, k), LAMBDA l :
        IF l.err # ""
        THEN [k |-> l.k, err |-> l.err, lower |-> <<>>, upper |-> <<>>]
        ELSE Bind(UpperBoundary(c, l.k), LAMBDA u :
            IF u.err # ""
            THEN [k |-> u.k, err |-> u.err, lower |-> <<>>, upper |-> <<>>]
            ELSE [k |-> u.k, err |-> "", lower |-> l.val, upper |-> u.val]))

---------------------------------------------------------------------------
(* MeasuredSpectraContainer: the mapping *)

\* the interpolant of _get_single_mapper once the points (x, y) are known:
\* bounds, isotonic regression, domain_bounds (lines 284-300)
FitMapper(c, k, idx, x, y, zil) ==
    Bind(Bounds(c, k), LAMBDA b :
        IF b.err # "" THEN [k |-> b.k, err |-> b.err, m |-> <<>>]
        ELSE Bind(Boundaries(c, b.k), LAMBDA d :
            IF d.err # "" THEN [k |-> d.k, err |-> d.err, m |-> <<>>]
            ELSE [k |-> d.k, err |-> "",
                  m |-> Interp1d(
                          IsotonicRegression(y, b.lo[idx], b.hi[idx], zil),
                          x, d.lower[idx], d.upper[idx])]))

\* _get_single_mapper (lines 259-300): [k, err, m]
GetSingleMapper(c, k, idx) ==
    Bind(WithIl(c, k), LAMBDA k1 :
        LET il == Get(k1.il)
            ele == Eles(c)[idx]
            zil == ele.zero_is_lower
            zb == ele.zero_boundary
        IN  IF idx > Len(il)
            THEN [k |-> k1, err |-> "IndexError", m |-> <<>>]
            ELSE
            LET x0 == RSeq(il[idx].dom)
                y0 == il[idx].vals
                prepend == ~IsNone(zb) /\ zil /\ RLt(Get(zb), SeqMinR(x0))
                append == ~IsNone(zb) /\ ~prepend /\ ~zil
                              /\ RGt(Get(zb), SeqMaxR(x0))
                x == IF prepend THEN <<Get(zb)>> \o x0 ELSE x0
                y == IF prepend THEN <<R(0)>> \o y0 ELSE y0
            IN  IF append
                \* line 282 calls np.concateante, which numpy does not have
                THEN [k |-> k1, err |-> "AttributeError", m |-> <<>>]
                ELSE FitMapper(c, k1, idx, x, y, zil))

RECURSIVE BuildMappers(_, _, _, _)
\* the loop of _mapper_func (lines 249-251): [k, err, ms]
BuildMappers(c, k, idx, acc) ==
    IF idx > Len(c) THEN [k |-> k, err |-> "", ms |-> acc]
    ELSE Bind(GetSingleMapper(c, k, idx), LAMBDA g :
             IF g.err # "" THEN [k |-> g.k, err |-> g.err, ms |-> <<>>]
             ELSE BuildMappers(c, g.k, idx + 1, Append(acc, g.m)))

\* the mappers _mapper_func works with (lines 248-252): the cached ones, or
\* new ones that are cached when all were built: [k, err, ms, built]
Mappers(c, k) ==
    IF ~IsNone(k.mapper)
    THEN [k |-> k, err |-> "", ms |-> Get(k.mapper), built |-> FALSE]
    ELSE Bind(BuildMappers(c, k, 1, <<>>), LAMBDA b :
             IF b.err # ""
             THEN [k |-> b.k, err |-> b.err, ms |-> <<>>, built |-> FALSE]
             ELSE [k |-> [b.k EXCEPT !.mapper = Some(b.ms)], err |-> "",
                   ms |-> b.ms, built |-> TRUE])

\* _mapper_func (lines 243-257) on the rows x: [k, err, y, built]
MapperFunc(c, k, x) ==
    Bind(Mappers(c, k), LAMBDA b :
        IF b.err # ""
        THEN [k |-> b.k, err |-> b.err, y |-> <<>>, built |-> FALSE]
        ELSE IF Len(x[1]) > Len(b.ms)
        THEN [k |-> b.k, err |-> "IndexError", y |-> <<>>,
              built |-> b.built]
        ELSE [k |-> b.k, err |-> "", built |-> b.built,
              y |-> [r \in 1..Len(x) |->
                       [j \in 1..Len(x[r]) |->
                          InterpCall(b.ms[j], x[r][j])]]])

\* np.atleast_2d
AtLeast2d(a) == IF a.nd = 1 THEN <<a.v>> ELSE a.v

\* a check of the batch as a whole: its smallest element against the
\* smallest lower bound, its largest against the largest upper bound
WithinBounds_Aggregate(x, lo, hi) ==
    \A r \in 1..Len(x) : \A j \in 1..Len(x[r]) :
        RGe(x[r][j], SeqMinR(lo)) /\ RLe(x[r][j], SeqMaxR(hi))

\* the check of _pre_mapping (lines 337-342): every element within the
\* bounds of its own channel
WithinBounds(x, lo, hi) ==
    \A r \in 1..Len(x) : \A j \in 1..Len(x[r]) :
        RGe(x[r][j], lo[j]) /\ RLe(x[r][j], hi[j])

\* _post_mapping (lines 314-329): the clip against the boundaries, which are
\* broadcast as one row, so the result is always two-dimensional
PostMapping(y, lower, upper) ==
    Arr2([r \in 1..Len(y) |->
            [j \in 1..Len(y[r]) |-> Clip(y[r][j], lower[j], upper[j])]])

\* the part of map after _pre_mapping accepted the rows x (lines 235-241)
MapAccepted(c, k, x) ==
    Bind(MapperFunc(c, k, x), LAMBDA f :
        IF f.err # ""
        THEN [k |-> f.k, err |-> f.err, res |-> <<>>, built |-> f.built]
        ELSE Bind(Boundaries(c, f.k), LAMBDA d :
            IF d.err # ""
            THEN [k |-> d.k, err |-> d.err, res |-> <<>>, built |-> f.built]
            ELSE [k |-> d.k, err |-> "", built |-> f.built,
                  res |-> PostMapping(f.y, d.lower, d.upper)]))

\* map (lines 223-241) for an array with one column per channel:
\* [k, err, res, built]
MapValues(c, k, values) ==
    Bind(Bounds(c, k), LAMBDA b :
        IF b.err # ""
        THEN [k |-> b.k, err |-> b.err, res |-> <<>>, built |-> FALSE]
        ELSE IF ~WithinBounds(AtLeast2d(values), b.lo, b.hi)
        THEN [k |-> b.k, err |-> "AssertionError", res |-> <<>>,
              built |-> FALSE]
        ELSE MapAccepted(c, b.k, AtLeast2d(values)))

---------------------------------------------------------------------------
(* The container's operations *)

MaxLen == 2
MaxBuilds == 2

\* what the last operation on the container did: its argument, whether and
\* what it raised, what it returned and whether it built the mapper list
COutcomeB(op, err, arg, res, built) ==
    [op |-> op, raised |-> err # "", err |-> err, arg |-> arg, res |-> res,
     built |-> built]

COutcome(op, err, arg, res) == COutcomeB(op, err, arg, res, FALSE)

\* append without the reset of the cached values
AppendEle_KeepsCaches(value) ==
    /\ Len(container) < MaxLen \/ ~IsAllowed(value)
    /\ IF ~IsAllowed(value)
       THEN /\ UNCHANGED <<container, cache, builds>>
            /\ cout' = COutcome("append", "DreyeError", value, <<>>)
       ELSE /\ container' = Append(container, value)
            /\ UNCHANGED <<cache, builds>>
            /\ cout' = COutcome("append", "", value, <<>>)
    /\ UNCHANGED sigVars

\* _AbstractContainer.append (lines 161-164)
AppendEle(value) ==
    /\ Len(container) < MaxLen \/ ~IsAllowed(value)
    /\ IF ~IsAllowed(value)
       THEN /\ UNCHANGED <<container, cache, builds>>
            /\ cout' = COutcome("append", "DreyeError", value, <<>>)
       ELSE /\ container' = Append(container, value)
            /\ cache' = InitAttrs
            /\ builds' = 0
            /\ cout' = COutcome("append", "", value, <<>>)
    /\ UNCHANGED sigVars

\* _check_list (lines 139-152): "" or the exception
CheckList(value) ==
    IF value.lk # "list" THEN "DreyeError"
    ELSE IF ~AreInstances(value.l) THEN "DreyeError"
    ELSE ""

\* extend that adds the elements one by one and stops at the first that is
\* not allowed; _check_list (lines 139-152) has no such step: it rejects the
\* whole list before any element is added
ExtendEles_AddsPrefix(value) ==
    /\ value.lk = "list" => Len(container) + Len(value.l) <= MaxLen
    /\ IF value.lk # "list"
       THEN /\ UNCHANGED <<container, cache, builds>>
            /\ cout' = COutcome("extend", "DreyeError", value, <<>>)
       ELSE \E k \in {n \in 0..Len(value.l) :
                         /\ \A i \in 1..n : IsAllowed(value.l[i])
                         /\ n = Len(value.l) \/ ~IsAllowed(value.l[n + 1])} :
            /\ container' = container \o SubSeq(value.l, 1, k)
            /\ IF k = 0
               THEN UNCHANGED <<cache, builds>>
               ELSE cache' = InitAttrs /\ builds' = 0
            /\ cout' = COutcome("extend", CheckList(value), value, <<>>)
    /\ UNCHANGED sigVars

\* _AbstractContainer.extend (lines 166-169)
ExtendEles(value) ==
    /\ CheckList(value) = "" => Len(container) + Len(value.l) <= MaxLen
    /\ IF CheckList(value) # ""
       THEN /\ UNCHANGED <<container, cache, builds>>
            /\ cout' = COutcome("extend", CheckList(value), value, <<>>)
       ELSE /\ container' = container \o value.l
            /\ cache' = InitAttrs
            /\ builds' = 0
            /\ cout' = COutcome("extend", "", value, <<>>)
    /\ UNCHANGED sigVars

\* list.pop(index): the position removed (from 1), or 0 when it raises
PopPosition(n, index) ==
    LET i == IF index < 0 THEN index + n ELSE index
    IN  IF n = 0 \/ i < 0 \/ i >= n THEN 0 ELSE i + 1

\* _AbstractContainer.pop (lines 171-174)
PopEle(index) ==
    /\ LET p == PopPosition(Len(container), index) IN
       IF p = 0
       THEN /\ UNCHANGED <<container, cache, builds>>
            /\ cout' = COutcome("pop", "IndexError", index, <<>>)
       ELSE /\ container' = SubSeq(container, 1, p - 1)
                              \o SubSeq(container, p + 1, Len(container))
            /\ cache' = InitAttrs
            /\ builds' = 0
            /\ cout' = COutcome("pop", "", index, container[p])
    /\ UNCHANGED sigVars

\* reading a cached property: the cache after the read, and the outcome
ReadDone(k, err) ==
    /\ cache' = k
    /\ cout' = COutcome("read", err, <<>>, <<>>)
    /\ UNCHANGED <<container, builds, sigVars>>

ReadZeroIsLower == ReadDone(WithZil(container, cache), "")
ReadZeroBoundary == ReadDone(WithZb(container, cache), "")
ReadMaxBoundary == ReadDone(WithMb(container, cache), "")
ReadIntensitiesList ==
    ReadDone(WithIl(container, cache), "")
ReadIntensities ==
    ReadDone(WithI(container, cache).k,
             WithI(container, cache).err)
ReadNormalizedSpectrumList ==
    ReadDone(WithNsl(container, cache), "")
ReadNormalizedSpectrum ==
    ReadDone(WithNs(container, cache).k,
             WithNs(container, cache).err)
ReadBounds ==
    ReadDone(Bounds(container, cache).k,
             Bounds(container, cache).err)
ReadDomainBounds ==
    ReadDone(Boundaries(container, cache).k,
             Boundaries(container, cache).err)

\* MeasuredSpectraContainer.map
Map(values) ==
    /\ \E m \in {MapValues(container, cache, values)} :
       /\ cache' = m.k
       /\ builds' = IF m.built /\ builds < MaxBuilds THEN builds + 1
                    ELSE builds
       /\ cout' = COutcomeB("map", m.err, values, m.res, m.built)
    /\ UNCHANGED <<container, sigVars>>

\* the elements the membership operations are exercised with
Members == {e \in FixtureIds : Elements[e].name \in {"up", "down", "free"}}

\* the elements of the lists extend is tried with
Listed == {NotAnElement} \cup {e \in Members : Elements[e].name # "free"}

\* lists and other arguments extend is tried with
ExtendInputs ==
    {[lk |-> "other"]}
        \cup {[lk |-> "list", l |-> l] :
                l \in {<<>>} \cup {<<a>> : a \in Listed}
                        \cup {<<a, b>> : a \in Listed, b \in Listed}}

PopIndexes == {-(MaxLen + 1), -1, 0, 1, MaxLen}

\* one row of n equal intensities
Row(n, v) == [j \in 1..n |-> v]

\* the inputs map is tried with while the caches are exercised
ProbeInputs(n) == {Arr1(Row(n, R(1))), Arr1(Row(n, R(-1)))}

SigIdle ==
    /\ cur = <<>>
    /\ pre = <<>>
    /\ post = <<>>
    /\ out = <<>>
    /\ steps = 0

InitContainer ==
    /\ container = <<>>
    /\ cache = InitAttrs
    /\ builds = 0
    /\ cout = COutcome("init", "", <<>>, <<>>)
    /\ SigIdle

NextContainer ==
    \/ \E e \in {NotAnElement} \cup Members : AppendEle(e)
    \/ \E l \in ExtendInputs : ExtendEles(l)
    \/ \E i \in PopIndexes : PopEle(i)
    \/ ReadZeroIsLower
    \/ ReadZeroBoundary
    \/ ReadMaxBoundary
    \/ ReadIntensitiesList
    \/ ReadIntensities
    \/ ReadNormalizedSpectrumList
    \/ ReadNormalizedSpectrum
    \/ ReadBounds
    \/ ReadDomainBounds
    \/ \E v \in ProbeInputs(Len(container)) : Map(v)

SpecContainer == InitContainer /\ [][NextContainer]_vars

\* the value each cache key holds when computed from the membership c
Fresh(c) ==
    [zil |-> WithZil(c, InitAttrs).zil,
     zb |-> WithZb(c, InitAttrs).zb,
     mb |-> WithMb(c, InitAttrs).mb,
     il |-> WithIl(c, InitAttrs).il,
     i |-> WithI(c, InitAttrs).k.i,
     nsl |-> WithNsl(c, InitAttrs).nsl,
     ns |-> WithNs(c, InitAttrs).k.ns,
     mapper |-> Mappers(c, InitAttrs).k.mapper]

CacheKeys == DOMAIN InitAttrs

\* C2: every cached derived value is unset or is the value computed from
\* the current membership; the mapper list was built at most once since the
\* last membership change and holds one mapper per current channel.
C2_CachesFollowMembership ==
    /\ \E fresh \in {Fresh(container)} : \A key \in CacheKeys :
           IsNone(cache[key]) \/ cache[key] = fresh[key]
    /\ builds <= 1
    /\ ~IsNone(cache.mapper) => Len(Get(cache.mapper)) = Len(container)

\* a second map call reused the mapper list the first one built, with the
\* other caches filled too
C2_Witness ==
    /\ cout.op = "map" /\ ~cout.raised /\ ~cout.built
    /\ builds = 1
    /\ Len(container) = 2
    /\ \A key \in CacheKeys \ {"ns", "nsl"} : ~IsNone(cache[key])

\* C4: a membership operation that raises leaves the membership list and
\* every cached value as they were; in particular extend adds no prefix of
\* a rejected list.
C4_FailedChangeKeepsAll ==
    [][(cout'.op \in {"append", "extend", "pop"} /\ cout'.raised)
          => (container' = container /\ cache' = cache)]_vars

\* extend was rejected for a list whose first element is allowed, on a
\* container with filled caches
C4_Witness ==
    /\ cout.op = "extend" /\ cout.raised
    /\ cout.arg.lk = "list" /\ Len(cout.arg.l) = 2
    /\ IsAllowed(cout.arg.l[1]) /\ ~IsAllowed(cout.arg.l[2])
    /\ Len(container) = 1
    /\ ~IsNone(cache.il) /\ ~IsNone(cache.mapper)

---------------------------------------------------------------------------
(* map on containers of every membership *)

MaxChannels == 2

\* the containers of up to MaxChannels different elements
Containers ==
    UNION {{c \in [1..n -> FixtureIds] :
              \A i \in 1..n : \A j \in 1..n : c[i] = c[j] => i = j} :
           n \in 0..MaxChannels}

\* the intensities map is tried with
Levels == {R(-1), R(1), R(4)}
Intensities == Levels \cup {MkRat(5, 2)}

\* one-dimensional inputs with one intensity per channel, and two-row
\* inputs of constant rows
MapInputs(n) ==
    {Arr1(r) : r \in [1..n -> Levels]}
        \cup {Arr2(<<Row(n, a), Row(n, b)>>) :
                a \in Intensities, b \in Intensities}

InitMap ==
    /\ container \in Containers
    /\ cache = InitAttrs
    /\ builds = 0
    /\ cout = COutcome("init", "", <<>>, <<>>)
    /\ SigIdle

NextMap == \E v \in MapInputs(Len(container)) : Map(v)

SpecMap == InitMap /\ [][NextMap]_vars

\* the bounds of c are defined and some element of values lies below the
\* lower or above the upper intensity bound of its own channel
OutOfOwnBounds(c, values) ==
    \E b \in {Bounds(c, InitAttrs)} :
        /\ b.err = ""
        /\ \E r \in 1..Len(AtLeast2d(values)) : \E j \in 1..Len(c) :
               \/ RLt(AtLeast2d(values)[r][j], b.lo[j])
               \/ RGt(AtLeast2d(values)[r][j], b.hi[j])

\* C9: map raises for every input with an element outside the intensity
\* bounds of its own channel, and such a call neither builds nor changes the
\* cached mapper list.
C9_RejectsPerElement ==
    [][(cout'.op = "map" /\ OutOfOwnBounds(container', cout'.arg))
          => /\ cout'.err = "AssertionError"
             /\ ~cout'.built
             /\ cache'.mapper = cache.mapper]_vars

\* a call was rejected although every element lies within the bounds of the
\* batch as a whole, and the mapper list built before is still cached
C9_Witness ==
    /\ cout.op = "map" /\ cout.err = "AssertionError"
    /\ OutOfOwnBounds(container, cout.arg)
    /\ WithinBounds_Aggregate(AtLeast2d(cout.arg),
                              Bounds(container, InitAttrs).lo,
                              Bounds(container, InitAttrs).hi)
    /\ ~IsNone(cache.mapper)

\* C10: for every accepted input and every channel c the returned control
\* input lies in [lower_boundary[c], upper_boundary[c]].
C10_ResultWithinBoundaries ==
    (cout.op = "map" /\ ~cout.raised) =>
        \E d \in {Boundaries(container, InitAttrs)} :
            \A r \in 1..Len(cout.res.v) : \A j \in 1..Len(container) :
                /\ RLe(d.lower[j], cout.res.v[r][j])
                /\ RLe(cout.res.v[r][j], d.upper[j])

---------------------------------------------------------------------------
(* map on one channel of every combination of measurements *)

\* the intensities the channel is asked for
FitQueries == {R(0), R(1), MkRat(3, 2), R(2), MkRat(5, 2), R(3)}

\* samples-by-channels inputs of two samples, the smaller intensity first
FitInputs ==
    {Arr2(<<<<p[1]>>, <<p[2]>>>>) :
        p \in {q \in FitQueries \X FitQueries : RLe(q[1], q[2])}}

InitFit ==
    /\ container \in {<<e>> : e \in CombinationIds}
    /\ cache = InitAttrs
    /\ builds = 0
    /\ cout = COutcome("init", "", <<>>, <<>>)
    /\ SigIdle

NextFit == \E v \in FitInputs : Map(v)

SpecFit == InitFit /\ [][NextFit]_vars

\* C11: an accepted intensity equal to the channel's lower intensity bound is
\* mapped to lower_boundary, and one equal to its upper intensity bound is
\* mapped to upper_boundary.
C11_ExtremesMapToBoundaries ==
    (cout.op = "map" /\ ~cout.raised) =>
        \E b \in {Bounds(container, InitAttrs)} :
        \E d \in {Boundaries(container, InitAttrs)} :
            \A r \in 1..Len(cout.arg.v) : \A j \in 1..Len(container) :
                /\ cout.arg.v[r][j] = b.lo[j] => cout.res.v[r][j] = d.lower[j]
                /\ cout.arg.v[r][j] = b.hi[j] => cout.res.v[r][j] = d.upper[j]

\* C12: for a channel with zero_is_lower the control inputs of the mapper,
\* taken in the order of the fitted intensities, ascend (the fitted
\* intensities do not decrease with the control input), and of two accepted
\* intensities the larger is not mapped to the smaller control input.
C12_MonotoneWhenZeroIsLower ==
    (cout.op = "map" /\ ~cout.raised /\ Elements[container[1]].zero_is_lower) =>
        /\ \E m \in {Get(cache.mapper)[1]} :
               \A i \in 1..(Len(m.xs) - 1) :
                   RLe(m.xs[i], m.xs[i + 1]) /\ RLt(m.ys[i], m.ys[i + 1])
        /\ RLe(cout.res.v[1][1], cout.res.v[2][1])

\* two intensities were mapped to different control inputs by a channel
\* whose measured intensities fall between the second and the third control
\* input
C12_Witness ==
    /\ cout.op = "map" /\ ~cout.raised
    /\ Elements[container[1]].zero_is_lower
    /\ \E il \in {Get(cache.il)[1].vals} : RGt(il[2], il[3])
    /\ RLt(cout.res.v[1][1], cout.res.v[2][1])

---------------------------------------------------------------------------
(* MeasuredSpectrum: construction *)

\* the arguments of MeasuredSpectrum(...): the values hold one row per label
\* (the labels lie along the other axis); the labels are a Domain or a
\* generic list
Measured(values, labels, isDomain, name, zb, mb, zil) ==
    [values |-> values, labels |-> labels, is_domain |-> isDomain,
     name |-> name, zero_boundary |-> zb, max_boundary |-> mb,
     zero_is_lower |-> zil]

\* np.argsort(labels): the positions (from 1) in ascending order of label
ArgSort(labels) ==
    LET ps == StableSort(<<>>, [i \in 1..Len(labels) |->
                                  [x |-> R(labels[i]), y |-> i]])
    IN  [i \in 1..Len(ps) |-> ps[i].y]

\* np.all(np.diff(sorted_idcs) == 1)
InOrder(idcs) == \A i \in 1..(Len(idcs) - 1) : idcs[i + 1] - idcs[i] = 1

\* the outcome of a construction: the exception ("" for none) and the
\* MeasuredSpectrum
Constructed(err, ele) == [err |-> err, ele |-> ele]

\* the polarity with the comparison of the boundaries turned round
DerivedPolarity_Reversed(zb, mb) == RLt(mb, zb)

\* zero_is_lower when it is not given (lines 165-168)
DerivedPolarity(zb, mb) == RLt(zb, mb)

\* a construction without the check of the calibration metadata
MeasuredSpectrumInit_Unchecked(a) ==
    IF a.values.nd # 2 THEN Constructed("DreyeError", <<>>)
    ELSE IF IsNone(a.name) THEN Constructed("DreyeError", <<>>)
    ELSE Constructed("",
             [name |-> Get(a.name), wl |-> <<0, 2>>, labels |-> a.labels,
              spectra |-> a.values.v,
              zero_boundary |-> a.zero_boundary,
              max_boundary |-> a.max_boundary,
              zero_is_lower |-> a.zero_is_lower])

\* MeasuredSpectrum.__init__ (lines 94-169) after Signal.__init__ accepted
\* the arguments.  For labels out of order np.take_along_axis is called
\* with the one-dimensional sorted_idcs on the two-dimensional values, which
\* numpy rejects; the except clause turns that into DreyeError.
MeasuredSpectrumInit(a) ==
    IF a.values.nd # 2 THEN Constructed("DreyeError", <<>>)
    ELSE IF ~a.is_domain /\ ~InOrder(ArgSort(a.labels))
    THEN Constructed("DreyeError", <<>>)
    ELSE IF IsNone(a.name) THEN Constructed("DreyeError", <<>>)
    ELSE IF IsNone(a.zero_is_lower)
              /\ (IsNone(a.max_boundary) \/ IsNone(a.zero_boundary))
    THEN Constructed("DreyeError", <<>>)
    ELSE Constructed("",
             [name |-> Get(a.name), wl |-> <<0, 2>>, labels |-> a.labels,
              spectra |-> a.values.v,
              zero_boundary |-> a.zero_boundary,
              max_boundary |-> a.max_boundary,
              zero_is_lower |->
                  IF IsNone(a.zero_is_lower)
                  THEN DerivedPolarity(Get(a.zero_boundary),
                                       Get(a.max_boundary))
                  ELSE Get(a.zero_is_lower)])

\* MeasuredSpectrum(...) is called
Construct(a) ==
    /\ \E m \in {MeasuredSpectrumInit(a)} :
           cout' = COutcome("construct", m.err, a, m.ele)
    /\ UNCHANGED <<container, cache, builds, sigVars>>

\* the label lists, ascending and not
LabelLists == {<<1, 2, 3>>, <<2, 1, 3>>, <<3, 2, 1>>, <<1, 3, 2>>}

\* one spectrum over two wavelengths per label, or a one-dimensional array
ValueArrays ==
    {Arr2(<<RSeq(<<1, 0>>), RSeq(<<2, 1>>), RSeq(<<4, 2>>)>>),
     Arr1(RSeq(<<1, 2, 4>>))}

Range(s) == {s[i] : i \in 1..Len(s)}

MeasuredInputs ==
    {Measured(v, l.labels, l.is_domain, n, zb, mb, zil) :
        v \in ValueArrays,
        l \in {[labels |-> x, is_domain |-> FALSE] : x \in LabelLists}
                \cup {[labels |-> <<1, 2, 3>>, is_domain |-> TRUE]},
        n \in {None, Some("g")},
        zb \in Range(ZeroBoundaries), mb \in Range(MaxBoundaries),
        zil \in {None} \cup {Some(x) : x \in Range(Polarities)}}

InitConstruct ==
    /\ container = <<>>
    /\ cache = InitAttrs
    /\ builds = 0
    /\ cout = COutcome("init", "", <<>>, <<>>)
    /\ SigIdle

NextConstruct == \E a \in MeasuredInputs : Construct(a)

SpecConstruct == InitConstruct /\ [][NextConstruct]_vars

\* the checks of dimensions, name and calibration metadata reject a
RejectedByChecks(a) ==
    \/ a.values.nd # 2
    \/ IsNone(a.name)
    \/ IsNone(a.zero_is_lower)
           /\ (IsNone(a.zero_boundary) \/ IsNone(a.max_boundary))

\* the labels of a are a Domain or a list in ascending order
LabelsAscend(a) ==
    a.is_domain \/ \A i \in 1..(Len(a.labels) - 1) : a.labels[i] < a.labels[i + 1]

\* C13: construction raises when the values are not two-dimensional, when
\* the name is None, or when zero_is_lower is absent together with one of the
\* boundaries; with labels in ascending order it succeeds in every other
\* case.
C13_ConstructionChecks ==
    cout.op = "construct" =>
        /\ RejectedByChecks(cout.arg) => cout.err = "DreyeError"
        /\ (~RejectedByChecks(cout.arg) /\ LabelsAscend(cout.arg))
               => ~cout.raised

\* a MeasuredSpectrum was constructed from both boundaries without
\* zero_is_lower
C13_Witness ==
    /\ cout.op = "construct" /\ ~cout.raised
    /\ IsNone(cout.arg.zero_is_lower)
    /\ cout.res.name = "g"

\* C14: a MeasuredSpectrum constructed without zero_is_lower has
\* zero_is_lower = (zero_boundary < max_boundary), and zero_is_lower of a
\* constructed MeasuredSpectrum is a Boolean, never None.
C14_PolarityDerived ==
    (cout.op = "construct" /\ ~cout.raised) =>
        /\ cout.res.zero_is_lower \in BOOLEAN
        /\ IsNone(cout.arg.zero_is_lower) =>
               cout.res.zero_is_lower =
                   RLt(Get(cout.arg.zero_boundary), Get(cout.arg.max_boundary))

\* a MeasuredSpectrum was constructed with a zero boundary above the max
\* boundary and no zero_is_lower
C14_Witness ==
    /\ cout.op = "construct" /\ ~cout.raised
    /\ IsNone(cout.arg.zero_is_lower)
    /\ RGt(Get(cout.arg.zero_boundary), Get(cout.arg.max_boundary))
    /\ cout.res.zero_is_lower = FALSE

\* the rows of values in the order idcs
Permuted(rows, idcs) == [i \in 1..Len(idcs) |-> rows[idcs[i]]]

\* C15: construction with generic labels that pass the other checks
\* succeeds; the labels of the MeasuredSpectrum are the given ones in
\* ascending order and its values are the given rows in the order of the
\* sorting permutation (unchanged for labels already ascending).
C15_UnsortedLabelsSorted ==
    (cout.op = "construct" /\ ~cout.arg.is_domain
        /\ ~RejectedByChecks(cout.arg)) =>
        /\ ~cout.raised
        /\ \E idcs \in {ArgSort(cout.arg.labels)} :
               /\ cout.res.labels = Permuted(cout.arg.labels, idcs)
               /\ cout.res.spectra = Permuted(cout.arg.values.v, idcs)

---------------------------------------------------------------------------
(* Signal: the operations that return a Signal *)

\* what an operation did: the receiver after it, the exception raised (""
\* for none), the kind of the result ("signal", "array" or "none"), the
\* result, whether the result is the receiver itself, and how the array of
\* the result's values lies in the buffer of the receiver's values: "none"
\* (an array of its own), "same" (the same array, or a view of it with the
\* axes in their order) or "transposed" (a view of it with the axes swapped)
DidView(recv, res, view) ==
    [recv |-> recv, err |-> "", kind |-> "signal", res |-> res,
     same |-> FALSE, view |-> view]
Did(recv, res, same) ==
    [recv |-> recv, err |-> "", kind |-> "signal", res |-> res, same |-> same,
     view |-> IF same THEN "same" ELSE "none"]
Raised(recv, err) ==
    [recv |-> recv, err |-> err, kind |-> "none", res |-> <<>>, same |-> FALSE,
     view |-> "none"]
GaveArray(recv, arr) ==
    [recv |-> recv, err |-> "", kind |-> "array", res |-> arr, same |-> FALSE,
     view |-> "none"]

\* copy(): another instance with the same attributes and no cached
\* interpolation function.  The copy is shallow: its values are the array of
\* the receiver until the operation assigns another one, which the view of
\* the operation's outcome records
Copy(s) == [s EXCEPT !.interpolate = None]

\* _flip_axes_assignment: the domain axis becomes the other axis
FlipAxesAssignment(s) == [s EXCEPT !.domain_axis = OtherAxis(s)]

\* Signal.T (lines 450-462): the copy, or the copy with magnitude.T, a view
\* of the array the copy shares with the receiver
TOp(s) ==
    IF Ndim(s) = 1 THEN DidView(s, Copy(s), "same")
    ELSE DidView(s, FlipAxesAssignment(
                        [Copy(s) EXCEPT !.values = Transpose(s.values)]),
                 "transposed")

AxisArgs == {-2, -1, 0, 1}

\* Signal.moveaxis (lines 464-478); np.moveaxis raises AxisError for an axis
\* a two-dimensional array does not have, and returns a view of the
\* receiver's array (line 471, taken before the copy)
MoveAxisOp(s, source, destination) ==
    IF Ndim(s) # 2 THEN Raised(s, "AssertionError")
    ELSE IF source \notin AxisArgs \/ destination \notin AxisArgs
    THEN Raised(s, "AxisError")
    ELSE IF source % 2 # destination % 2
    THEN DidView(s, FlipAxesAssignment(
                        [Copy(s) EXCEPT !.values = Transpose(s.values)]),
                 "transposed")
    ELSE DidView(s, Copy(s), "same")

\* searchsorted(xs, q) clipped to 1..len-1 (from 0): the upper neighbour
\* interp1d interpolates with
UpperNeighbour(xs, q) ==
    LET below == Cardinality({k \in 1..Len(xs) : RLt(xs[k], q)})
    IN  IF below < 1 THEN 1 ELSE IF below > Len(xs) - 1 THEN Len(xs) - 1
        ELSE below

\* np.interp(q, xs, ys) for a coordinate q within xs, which interp1d uses
\* for one-dimensional values: the sample itself at a sample position,
\* between two samples the line through them
NpInterpAt(xs, ys, q) ==
    LET j == LastLe(xs, q) IN
    IF j = Len(xs) \/ xs[j] = q THEN ys[j]
    ELSE RAdd(ys[j], RMul(RDiv(RSub(ys[j + 1], ys[j]), RSub(xs[j + 1], xs[j])),
                          RSub(q, xs[j])))

\* interp1d(xs, ys)(q) for one lane ys of values of two dimensions and one
\* coordinate q within xs (_call_linear: the line through the two
\* neighbours, at a sample position too); with a single sample both
\* neighbours are that sample and the slope is 0 / 0
LinearAt(xs, ys, q) ==
    IF Len(xs) = 1 THEN NaN ELSE
    LET hi == UpperNeighbour(xs, q) + 1
        lo == hi - 1
    IN  RAdd(ys[lo], RMul(RDiv(RSub(ys[hi], ys[lo]), RSub(xs[hi], xs[lo])),
                          RSub(q, xs[lo])))

\* the interpolated lane of two-dimensional values at the coordinates qs;
\* NaN outside of xs
LaneAt(xs, ys, qs) ==
    [i \in 1..Len(qs) |->
        IF RLt(qs[i], xs[1]) \/ RGt(qs[i], xs[Len(xs)]) THEN NaN
        ELSE LinearAt(xs, ys, qs[i])]

\* one-dimensional values interpolated at the coordinates qs; NaN outside
\* of xs
LaneAtNp(xs, ys, qs) ==
    [i \in 1..Len(qs) |->
        IF RLt(qs[i], xs[1]) \/ RGt(qs[i], xs[Len(xs)]) THEN NaN
        ELSE NpInterpAt(xs, ys, qs[i])]

\* the number of lanes along the domain axis
Lanes(s) == IF Ndim(s) = 1 THEN 1 ELSE OtherLen(s)

\* the lane of channel k along the domain axis
DomainLane(s, k) ==
    IF Ndim(s) = 1 THEN s.values.v ELSE Lane(s.values, s.domain_axis, k)

\* the array with the given lanes along the domain axis of s
WithLanes(s, lanes) ==
    IF Ndim(s) = 1 THEN Arr1(lanes[1]) ELSE FromLanes(lanes, s.domain_axis)

\* a query is a scalar or a list of coordinates
ScalarQuery(x) == [qk |-> "scalar", qv |-> <<x>>]
ListQuery(xs) == [qk |-> "list", qv |-> xs]

\* interp(query): the values at the query, the domain axis replaced by the
\* query (dropped for a scalar query)
InterpValues(s, q) ==
    LET lanes == [k \in 1..Lanes(s) |->
                    IF Ndim(s) = 1
                    THEN LaneAtNp(RSeq(s.domain), s.values.v, RSeq(q.qv))
                    ELSE LaneAt(RSeq(s.domain), DomainLane(s, k),
                                RSeq(q.qv))]
    IN  IF q.qk = "scalar"
        THEN IF Ndim(s) = 1 THEN [nd |-> 0, v |-> lanes[1][1]]
             ELSE Arr1([k \in 1..Lanes(s) |-> lanes[k][1]])
        ELSE WithLanes(s, lanes)

\* the length a clip bound has along the last axis (1 for a scalar)
ClipLen(clip) == IF clip.ck = "list" THEN Len(clip.lv) ELSE 1

\* one clip bound at position j of the last axis
BoundAt(clip, j) ==
    IF clip.ck = "scalar" THEN clip.sv
    ELSE IF Len(clip.lv) = 1 THEN clip.lv[1] ELSE clip.lv[j]

\* np.clip with one or both bounds on one element
ClipElement(x, clipMin, clipMax, j) ==
    LET lower == IF clipMin.ck = "none" THEN x
                 ELSE RMax(x, BoundAt(clipMin, j))
    IN  IF clipMax.ck = "none" THEN lower
        ELSE RMin(lower, BoundAt(clipMax, j))

\* the length of the last axis of a (1 for a scalar)
LastLen(a) ==
    IF a.nd = 0 THEN 1 ELSE IF a.nd = 1 THEN Len(a.v) ELSE Len(a.v[1])

\* the lengths other than 1 that meet on the last axis when np.clip
\* broadcasts the array with its bounds
ClipWidths(a, clipMin, clipMax) ==
    {LastLen(a), ClipLen(clipMin), ClipLen(clipMax)} \ {1}

\* whether np.clip can broadcast the bounds against the array
ClipBroadcasts(a, clipMin, clipMax) ==
    Cardinality(ClipWidths(a, clipMin, clipMax)) <= 1

\* _clip_values (lines 378-402) for bounds that broadcast: an axis of length
\* 1 is stretched to the length of a list-like bound
ClipValues(a, clipMin, clipMax) ==
    IF clipMin.ck = "none" /\ clipMax.ck = "none" THEN a
    ELSE
    LET widths == ClipWidths(a, clipMin, clipMax)
        w == IF widths = {} THEN 1 ELSE CHOOSE n \in widths : TRUE
        At(row, j) == IF Len(row) = 1 THEN row[1] ELSE row[j]
        ClipRow(row) ==
            [j \in 1..w |-> ClipElement(At(row, j), clipMin, clipMax, j)]
    IN  IF a.nd = 0
        THEN IF clipMin.ck = "list" \/ clipMax.ck = "list"
             THEN Arr1(ClipRow(<<a.v>>))
             ELSE [nd |-> 0, v |-> ClipElement(a.v, clipMin, clipMax, 1)]
        ELSE IF a.nd = 1 THEN Arr1(ClipRow(a.v))
        ELSE Arr2([i \in 1..Len(a.v) |-> ClipRow(a.v[i])])

RECURSIVE SeqMin(_), SeqMax(_)
\* np.min / np.max of a non-empty sequence of integer coordinates
SeqMin(q) ==
    IF Len(q) = 1 THEN q[1]
    ELSE IF q[1] < SeqMin(Tail(q)) THEN q[1] ELSE SeqMin(Tail(q))
SeqMax(q) ==
    IF Len(q) = 1 THEN q[1]
    ELSE IF q[1] > SeqMax(Tail(q)) THEN q[1] ELSE SeqMax(Tail(q))

\* the check of __call__ against domain_min and domain_max (lines 493-505):
\* whether it raises
CallRejects(s, qv) ==
    \/ ~IsNone(s.domain_min) /\ SeqMin(qv) > Get(s.domain_min)
    \/ ~IsNone(s.domain_max) /\ SeqMax(qv) < Get(s.domain_max)

RECURSIVE InsertCoordinate(_, _)
\* the ascending coordinates with x put after those not above it
InsertCoordinate(sorted, x) ==
    IF sorted = <<>> THEN <<x>>
    ELSE IF x < sorted[1] THEN <<x>> \o sorted
    ELSE <<sorted[1]>> \o InsertCoordinate(Tail(sorted), x)

RECURSIVE AsDomain(_)
\* Domain(coordinates): a Domain holds its coordinates in ascending order
\* ("domain will automatically sort label values")
AsDomain(coords) ==
    IF coords = <<>> THEN <<>>
    ELSE InsertCoordinate(AsDomain(Tail(coords)), coords[1])

\* the Signal a cached interpolation function f interpolates
Interpolant(f) ==
    [values |-> f.vals, domain |-> f.dom,
     domain_axis |-> f.kwargs.axis % f.vals.nd]

\* interp(query) checks the query against the samples when bounds_error
OutOfSamples(f, qv) ==
    \E i \in 1..Len(qv) : qv[i] < f.dom[1] \/ qv[i] > f.dom[Len(f.dom)]

\* a __call__ that returns the values only when they lost an axis
CallResult_RankOnly(r, q, values) ==
    IF values.nd < Ndim(r) THEN GaveArray(r, values)
    ELSE Did(r, [Copy(r) EXCEPT !.values = values,
                                !.domain = AsDomain(q.qv)], FALSE)

\* the part of __call__ after the interpolation function returned values
\* (lines 509-516) for the receiver r
CallResult(r, q, values) ==
    IF values.nd < Ndim(r) \/ Shape(values)[r.domain_axis + 1] = 1
    THEN GaveArray(r, values)
    ELSE Did(r, [Copy(r) EXCEPT !.values = values,
                                !.domain = AsDomain(q.qv)], FALSE)

\* the part of __call__ that interpolates (line 507) for the receiver r
\* whose interpolation function is cached
CallInterpolate(r, q) ==
    LET f == Get(r.interpolate) IN
    IF f.kwargs.bounds_error /\ OutOfSamples(f, q.qv)
    THEN Raised(r, "ValueError")
    ELSE Bind(InterpValues(Interpolant(f), q), LAMBDA raw :
             IF ~ClipBroadcasts(raw, r.signal_min, r.signal_max)
             THEN Raised(r, "ValueError")
             ELSE Bind(ClipValues(raw, r.signal_min, r.signal_max),
                       LAMBDA values : CallResult(r, q, values)))

\* the interpolator is constructed when none is cached; interp1d raises
\* unless there is one sample per coordinate along its axis
ConstructionFails(s) ==
    IsNone(s.interpolate) /\ Len(s.domain) # DomainLen(s)

\* Signal.__call__ (lines 480-516)
CallOp(s, q) ==
    IF CallRejects(s, q.qv) THEN Raised(s, "DreyeError")
    ELSE IF InterpolateErr(s) # "" THEN Raised(Interpolated(s), "TypeError")
    ELSE IF ConstructionFails(s) THEN Raised(WithAxis(s), "ValueError")
    ELSE Bind(Interpolated(s), LAMBDA r : CallInterpolate(r, q))

\* the positions of the finite entries of a lane
Finites(ys) == SelectSeq([i \in 1..Len(ys) |-> i], LAMBDA i : ~IsNaN(ys[i]))

\* one lane of nanless (lines 592-599, 606-613): the exception ("" for none;
\* IndexError when the lane is not as long as the domain it is indexed with;
\* TypeError when the interpolator is PchipInterpolator, which takes no
\* bounds_error) and the lane with the entries that are not finite
\* interpolated from the finite ones.  The lane is one-dimensional and the
\* interpolator is given the axis key of interpolator_kwargs: with axis 1
\* interp1d raises IndexError for a lane of any content
NanlessLane(xs, ys, boundsError, interpolator, axis) ==
    LET fin == Finites(ys)
        fx == [i \in 1..Len(fin) |-> xs[fin[i]]]
        fy == [i \in 1..Len(fin) |-> ys[fin[i]]]
    IN  IF Len(xs) # Len(ys) THEN [err |-> "IndexError", lane |-> <<>>]
        ELSE IF interpolator = "PchipInterpolator"
        THEN [err |-> "TypeError", lane |-> <<>>]
        ELSE IF axis = 1 THEN [err |-> "IndexError", lane |-> <<>>]
        ELSE IF Len(fin) < 1 THEN [err |-> "ValueError", lane |-> <<>>]
        ELSE IF boundsError /\ (fin[1] # 1 \/ fin[Len(fin)] # Len(ys))
        THEN [err |-> "ValueError", lane |-> <<>>]
        ELSE [err |-> "",
              lane |-> [i \in 1..Len(ys) |->
                          IF ~IsNaN(ys[i]) THEN ys[i]
                          ELSE LaneAtNp(fx, fy, <<xs[i]>>)[1]]]

\* Signal.nanless (lines 582-621); reading interpolator_kwargs writes the
\* axis key of the receiver's dict, after the domain and the lane have been
\* indexed with the mask of the lane
NanlessOp(s) ==
    IF Len(DomainLane(s, 1)) # Len(s.domain) THEN Raised(s, "IndexError")
    ELSE
    Bind(WithAxis(s), LAMBDA r :
    Bind([k \in 1..Lanes(r) |->
            NanlessLane(RSeq(r.domain), DomainLane(r, k),
                        r.kwargs.bounds_error, r.interpolator,
                        r.kwargs.axis)],
         LAMBDA done :
        IF \E k \in 1..Len(done) : done[k].err # ""
        THEN Raised(r, done[CHOOSE k \in 1..Len(done) :
                               /\ done[k].err # ""
                               /\ \A j \in 1..(k - 1) : done[j].err = ""].err)
        ELSE Did(r, [Copy(r) EXCEPT !.values =
                        WithLanes(r, [k \in 1..Len(done) |-> done[k].lane])],
                 FALSE)))

---------------------------------------------------------------------------
(* Signal: window_filter *)

\* Domain.is_uniform and Domain.interval
IsUniform(d) ==
    /\ Len(d) >= 2
    /\ \A i \in 1..(Len(d) - 1) : d[i + 1] - d[i] = d[2] - d[1]
Interval(d) == d[2] - d[1]

\* Domain.extend(n, left): n more coordinates at the spacing of that end
DomainExtend(d, n, left) ==
    IF left
    THEN [i \in 1..n |-> d[1] - (n + 1 - i) * (d[2] - d[1])] \o d
    ELSE d \o [i \in 1..n |-> d[Len(d)] + i * (d[Len(d)] - d[Len(d) - 1])]

\* the parabola savgol_filter fits (least squares, polyorder 2) to the w
\* entries of ys from position a on, at the offset u from the middle of the
\* window: with the offsets t = -h..h of the entries, S_k the sum of t^k and
\* T_k the sum of t^k * y_t, the fit is b0 + b1 * u + b2 * u^2 with
\* b1 = T_1 / S_2 and b0, b2 solving S_0 b0 + S_2 b2 = T_0 and
\* S_2 b0 + S_4 b2 = T_2
SavgolFit(ys, a, w, u) ==
    LET h == (w - 1) \div 2
        s2[t \in 0..h] == IF t = 0 THEN 0 ELSE s2[t - 1] + 2 * t * t
        s4[t \in 0..h] == IF t = 0 THEN 0 ELSE s4[t - 1] + 2 * t * t * t * t
        t0[i \in 0..w] ==
            IF i = 0 THEN R(0) ELSE RAdd(t0[i - 1], ys[a + i - 1])
        t1[i \in 0..w] ==
            IF i = 0 THEN R(0)
            ELSE RAdd(t1[i - 1], RMul(R(i - 1 - h), ys[a + i - 1]))
        t2[i \in 0..w] ==
            IF i = 0 THEN R(0)
            ELSE RAdd(t2[i - 1],
                      RMul(R((i - 1 - h) * (i - 1 - h)), ys[a + i - 1]))
        det == w * s4[h] - s2[h] * s2[h]
        b0 == RDiv(RSub(RMul(R(s4[h]), t0[w]), RMul(R(s2[h]), t2[w])), R(det))
        b1 == RDiv(t1[w], R(s2[h]))
        b2 == RDiv(RSub(RMul(R(w), t2[w]), RMul(R(s2[h]), t0[w])), R(det))
    IN  RAdd(b0, RAdd(RMul(b1, R(u)), RMul(b2, R(u * u))))

\* savgol_filter(ys, window, polyorder=2) on one lane for an odd window
\* within the lane (mode 'interp'): inside, the value in the middle of the
\* parabola fitted to the window around the entry; at the (window - 1) / 2
\* entries of each end, the value of the parabola fitted to the outermost
\* window.  An entry is NaN when an entry it is computed from is
SavgolLane(ys, window) ==
    LET n == Len(ys)
        h == (window - 1) \div 2
    IN  [i \in 1..n |->
            IF i <= h THEN SavgolFit(ys, 1, window, i - 1 - h)
            ELSE IF i > n - h
            THEN SavgolFit(ys, n - window + 1, window,
                           i - (n - window + 1) - h)
            ELSE SavgolFit(ys, i - h, window, 0)]

\* savgol_filter raises unless polyorder < window <= length
SavgolAccepts(n, window) == 2 < window /\ window <= n

\* the mean of the m entries of ys from position i on; entries outside of
\* ys count as 0
WindowMean(ys, i, m) ==
    LET At(k) == IF k < 1 \/ k > Len(ys) THEN R(0) ELSE ys[k]
        sum[k \in 0..m] == IF k = 0 THEN R(0)
                           ELSE RAdd(sum[k - 1], At(i + k - 1))
    IN  RDiv(sum[m], R(m))

\* Filter1D(method, m)(ys, mode): the moving window over one lane; 'valid'
\* keeps the positions where the window lies inside, 'same' every position
FilterLane(ys, m, mode) ==
    IF mode = "valid" THEN [i \in 1..(Len(ys) - m + 1) |-> WindowMean(ys, i, m)]
    ELSE [i \in 1..Len(ys) |-> WindowMean(ys, i - ((m - 1) \div 2), m)]

\* the values of s filtered lane by lane along its domain axis
FilterLanes(s, F(_)) ==
    WithLanes(s, [k \in 1..Lanes(s) |-> F(DomainLane(s, k))])

\* the end of window_filter (lines 694-698)
Filtered(r, values, copyFlag) ==
    IF copyFlag THEN Did(r, [Copy(r) EXCEPT !.values = values], FALSE)
    ELSE Did([r EXCEPT !.values = values], [r EXCEPT !.values = values], TRUE)

\* the extrapolating branch of window_filter (lines 667-684)
FilterExtrapolated(s, m, copyFlag) ==
    LET startIdx == (m - 1) \div 2
        endIdx == (m - 1) - startIdx
        newDomain == DomainExtend(DomainExtend(s.domain, startIdx, TRUE),
                                  endIdx, FALSE)
    IN  Bind(CallOp(s, ListQuery(newDomain)), LAMBDA c :
            IF c.err # "" THEN Raised(c.recv, c.err)
            ELSE IF c.kind # "signal" \/ DomainLen(c.res) < m
            THEN Raised(c.recv, "ValueError")
            ELSE Filtered(c.recv,
                          FilterLanes(c.res,
                                      LAMBDA ys : FilterLane(ys, m, "valid")),
                          copyFlag))

\* Signal.window_filter (lines 635-698) for a domain_interval that is a
\* whole number; int(M) truncates toward zero
WindowFilterOp(s, domainInterval, method, extrapolate, copyFlag) ==
    IF ~IsUniform(s.domain) THEN Raised(s, "AssertionError")
    ELSE
    LET m == RTrunc(MkRat(domainInterval, Interval(s.domain))).n IN
    IF method = "savgol"
    THEN LET window == m + ((m + 1) % 2) IN
         IF ~SavgolAccepts(DomainLen(s), window) THEN Raised(s, "ValueError")
         ELSE Filtered(s, FilterLanes(s, LAMBDA ys : SavgolLane(ys, window)),
                       copyFlag)
    ELSE IF m < 1 THEN Raised(s, "ValueError")
    ELSE IF extrapolate THEN FilterExtrapolated(s, m, copyFlag)
    ELSE Filtered(s, FilterLanes(s, LAMBDA ys : FilterLane(ys, m, "same")),
                  copyFlag)

---------------------------------------------------------------------------
(* Signal: concatenation *)

\* the operand of a concatenation: a Signal, an array (with the labels
\* argument of other_concat, None by default), or something else
SignalOperand(sig) == [ok |-> "signal", sig |-> sig]
LabelledOperand(arr, labels) == [ok |-> "array", arr |-> arr, labels |-> labels]
ArrayOperand(arr) == LabelledOperand(arr, None)
OtherOperand == [ok |-> "other"]

\* Domain.append(other, left): the Domain of the coordinates of both
DomainAppend(d, e, left) == AsDomain(IF left THEN e \o d ELSE d \o e)

\* domain_concat that puts the operand last whatever `left` says
DomainConcatDone_Appending(s, otherValues, domain, left, copyFlag) ==
    IF ~CanConcat(s.values, otherValues, s.domain_axis)
    THEN Raised(s, "ValueError")
    ELSE IF copyFlag
    THEN Did(s, [Copy(s) EXCEPT
                    !.values = Concat(s.values, otherValues, s.domain_axis),
                    !.domain = domain], FALSE)
    ELSE Did([s EXCEPT !.values = Concat(s.values, otherValues, s.domain_axis),
                       !.domain = domain],
             [s EXCEPT !.values = Concat(s.values, otherValues, s.domain_axis),
                       !.domain = domain], TRUE)

\* the end of domain_concat (lines 937-954) with the operand's values and
\* the new domain
DomainConcatDone(s, otherValues, domain, left, copyFlag) ==
    IF ~CanConcat(s.values, otherValues, s.domain_axis)
    THEN Raised(s, "ValueError")
    ELSE
    LET values == IF left THEN Concat(otherValues, s.values, s.domain_axis)
                  ELSE Concat(s.values, otherValues, s.domain_axis)
    IN  IF copyFlag
        THEN Did(s, [Copy(s) EXCEPT !.values = values, !.domain = domain],
                 FALSE)
        ELSE Did([s EXCEPT !.values = values, !.domain = domain],
                 [s EXCEPT !.values = values, !.domain = domain], TRUE)

\* domain_concat with a Signal (lines 905-918)
DomainConcatSignal(s, sig, left, copyFlag) ==
    IF Ndim(s) # Ndim(sig) THEN Raised(s, "AssertionError")
    ELSE
    LET turned == IF s.domain_axis # sig.domain_axis THEN TOp(sig).res
                  ELSE sig
    IN  IF OtherLen(s) # OtherLen(turned) THEN Raised(s, "AssertionError")
        ELSE DomainConcatDone(s, turned.values,
                              DomainAppend(s.domain, sig.domain, left),
                              left, copyFlag)

\* domain_concat with an array (lines 920-931); a one-dimensional array has
\* no axis 1 to take the shape of, and a domain of one coordinate has no
\* spacing to extend with
DomainConcatArray(s, arr, left, copyFlag) ==
    IF Ndim(s) = 2 /\ arr.nd = 1 /\ OtherAxis(s) = 1
    THEN Raised(s, "IndexError")
    ELSE IF Ndim(s) = 2 /\ OtherLen(s) # Shape(arr)[OtherAxis(s) + 1]
    THEN Raised(s, "AssertionError")
    ELSE IF arr.nd = 1 /\ s.domain_axis = 1 THEN Raised(s, "IndexError")
    ELSE IF Len(s.domain) < 2 THEN Raised(s, "DreyeError")
    ELSE DomainConcatDone(s, arr,
                          DomainExtend(s.domain,
                                       Shape(arr)[s.domain_axis + 1], left),
                          left, copyFlag)

\* Signal.domain_concat (lines 896-954)
DomainConcatOp(s, operand, left, copyFlag) ==
    IF operand.ok = "signal"
    THEN DomainConcatSignal(s, operand.sig, left, copyFlag)
    ELSE IF operand.ok = "array"
    THEN DomainConcatArray(s, operand.arr, left, copyFlag)
    ELSE Raised(s, "DreyeError")

\* _expand_dims(axis) of a one-dimensional Signal: another Signal with one
\* channel along the new axis; the domain lies along the axis that is left
ExpandDimsAt(s, axis) ==
    IF axis = 1
    THEN [Copy(s) EXCEPT !.values = Arr2([i \in 1..Len(s.values.v) |->
                                            <<s.values.v[i]>>]),
                         !.domain_axis = 0]
    ELSE [Copy(s) EXCEPT !.values = Arr2(<<s.values.v>>), !.domain_axis = 1]

\* _expand_dims(1)
ExpandDims(s) == ExpandDimsAt(s, 1)

\* the labels other_concat gives the columns of an array (lines 993-997)
DefaultLabels(n) == [i \in 1..n |-> ToString(i - 1)]

\* the end of other_concat (lines 1004-1023) on the Signal base, which is
\* the receiver itself when isReceiver
OtherConcatDone(recv, base, isReceiver, otherValues, otherLabels, left, copyFlag) ==
    IF ~CanConcat(base.values, otherValues, OtherAxis(base))
    THEN Raised(recv, "ValueError")
    ELSE
    LET values == IF left THEN Concat(otherValues, base.values, OtherAxis(base))
                  ELSE Concat(base.values, otherValues, OtherAxis(base))
        labels == IF left THEN otherLabels \o base.labels
                  ELSE base.labels \o otherLabels
        changed == [base EXCEPT !.values = values, !.labels = labels]
    IN  IF copyFlag THEN Did(recv, Copy(changed), FALSE)
        ELSE IF isReceiver THEN Did(changed, changed, TRUE)
        ELSE Did(recv, changed, FALSE)

\* the dimensions equalize_domains equalizes unless it is told not to
\* (spectral_measurement.py 560-561 passes equalize_dimensions=False): a
\* one-dimensional Signal beside a two-dimensional one becomes one channel
\* along the other axis of that one
EqualizeDimensions(e) ==
    IF e.err # "" \/ Ndim(e.a) = Ndim(e.b) THEN e
    ELSE IF Ndim(e.b) = 1
    THEN [e EXCEPT !.b = ExpandDimsAt(e.b, OtherAxis(e.a))]
    ELSE [e EXCEPT !.a = ExpandDimsAt(e.a, OtherAxis(e.b)),
                   !.isReceiver = FALSE]

\* equalize_domains: the receiver and the operand over one domain and with
\* as many dimensions.  Signals of one domain are returned as they are, the
\* receiver as itself or as another instance (asItself); Signals of
\* different domains are called on the coordinates both domains have.
EqualizeDomains(s, sig, asItself) ==
    IF s.domain = sig.domain
    THEN EqualizeDimensions(
             [err |-> "", recv |-> s, a |-> s, b |-> sig,
              isReceiver |-> asItself])
    ELSE
    LET shared == SelectSeq(s.domain,
                            LAMBDA x : \E i \in 1..Len(sig.domain) :
                                           sig.domain[i] = x)
    IN  IF Len(shared) < 2
        THEN [err |-> "DreyeError", recv |-> s, a |-> s, b |-> sig,
              isReceiver |-> FALSE]
        ELSE Bind(CallOp(s, ListQuery(shared)), LAMBDA x :
             Bind(CallOp(sig, ListQuery(shared)), LAMBDA y :
                EqualizeDimensions(
                    [err |-> IF x.err # "" THEN x.err
                             ELSE IF y.err # "" THEN y.err
                             ELSE IF x.kind # "signal" \/ y.kind # "signal"
                             THEN "AttributeError"
                             ELSE "",
                     recv |-> x.recv, a |-> x.res, b |-> y.res,
                     isReceiver |-> FALSE])))

\* other_concat with a Signal (lines 978-986)
OtherConcatSignal(s, base, isReceiver, sig, asItself, left, copyFlag) ==
    Bind(EqualizeDomains(base, sig, asItself), LAMBDA e :
        LET recv == IF isReceiver THEN e.recv ELSE s IN
        IF e.err # "" THEN Raised(recv, e.err)
        ELSE OtherConcatDone(recv, e.a, isReceiver /\ e.isReceiver,
                             e.b.values, e.b.labels, left, copyFlag))

\* other_concat with an array (lines 988-998); the shape of a
\* one-dimensional array is asked for axis 1 only when no labels are given
OtherConcatArray(s, base, isReceiver, arr, labels, left, copyFlag) ==
    IF IsNone(labels) /\ arr.nd = 1 /\ OtherAxis(base) = 1
    THEN Raised(s, "IndexError")
    ELSE OtherConcatDone(s, base, isReceiver, arr,
                         IF IsNone(labels)
                         THEN DefaultLabels(Shape(arr)[OtherAxis(base) + 1])
                         ELSE Get(labels),
                         left, copyFlag)

\* Signal.other_concat (lines 968-1023)
OtherConcatOp(s, operand, asItself, left, copyFlag) ==
    LET base == IF Ndim(s) = 1 THEN ExpandDims(s) ELSE s
        isReceiver == Ndim(s) = 2
    IN  IF operand.ok = "signal"
        THEN OtherConcatSignal(s, base, isReceiver, operand.sig, asItself,
                               left, copyFlag)
        ELSE IF operand.ok = "array"
        THEN OtherConcatArray(s, base, isReceiver, operand.arr,
                              operand.labels, left, copyFlag)
        ELSE Raised(s, "DreyeError")

---------------------------------------------------------------------------
(* Signal: sequences of operations *)

MaxSteps == 2

\* an operation was applied to cur: the next receiver is its result when
\* that is a Signal
Applied(op, d, copyFlag, q) ==
    /\ steps < MaxSteps
    /\ steps' = steps + 1
    /\ pre' = cur
    /\ post' = d.recv
    /\ cur' = IF d.kind = "signal" THEN d.res ELSE d.recv
    /\ out' = [Outcome(op, d.err, d.kind, d.same, copyFlag, q)
                  EXCEPT !.view = d.view]
    /\ UNCHANGED conVars

\* the operations that return a Signal derived from the receiver
TransformOps ==
    {"T", "moveaxis", "call", "nanless", "window_filter", "domain_concat",
     "other_concat"}

\* a[idx] = x, the assignment to one entry of an array in place
SetEntry(a, idx, x) ==
    IF a.nd = 1 THEN Arr1([a.v EXCEPT ![idx[1]] = x])
    ELSE Arr2([a.v EXCEPT ![idx[1]][idx[2]] = x])

\* the index of the last entry of the first row (of the last entry of a
\* one-dimensional array)
LastOfFirstRow(a) == IF a.nd = 1 THEN <<Len(a.v)>> ELSE <<1, Len(a.v[1])>>

\* the entry of the receiver's array that the entry idx of the result's
\* array is, for a result that is a view of it
SeenThrough(view, idx) ==
    IF view = "transposed" THEN <<idx[2], idx[1]>> ELSE idx

\* the value written into the result
Written == R(9)

\* a later mutation of the result: an entry of the values of the Signal an
\* operation returned is assigned in place; the receiver of the operation
\* has the entry too when the two share the array
DoSetEntry ==
    /\ out.op \in TransformOps
    /\ out.kind = "signal"
    /\ cur' = [cur EXCEPT !.values =
                  SetEntry(cur.values, LastOfFirstRow(cur.values), Written)]
    /\ post' = IF out.view = "none" THEN post
               ELSE [post EXCEPT !.values =
                        SetEntry(post.values,
                                 SeenThrough(out.view,
                                             LastOfFirstRow(cur.values)),
                                 Written)]
    /\ out' = [out EXCEPT !.op = "setitem"]
    /\ UNCHANGED <<pre, steps>>
    /\ UNCHANGED conVars

DoT == \E d \in {TOp(cur)} : Applied("T", d, TRUE, <<>>)

DoMoveAxis(source, destination) ==
    \E d \in {MoveAxisOp(cur, source, destination)} :
        Applied("moveaxis", d, TRUE, <<>>)

DoCall(q) == \E d \in {CallOp(cur, q)} : Applied("call", d, TRUE, q)

DoNanless == \E d \in {NanlessOp(cur)} : Applied("nanless", d, TRUE, <<>>)

DoWindowFilter(domainInterval, method, extrapolate, copyFlag) ==
    \E d \in {WindowFilterOp(cur, domainInterval, method, extrapolate,
                             copyFlag)} :
        Applied("window_filter", d, copyFlag, <<>>)

DoDomainConcat(operand, left, copyFlag) ==
    \E d \in {DomainConcatOp(cur, operand, left, copyFlag)} :
        Applied("domain_concat", d, copyFlag,
                [operand |-> operand, left |-> left])

DoOtherConcat(operand, asItself, left, copyFlag) ==
    \E d \in {OtherConcatOp(cur, operand, asItself, left, copyFlag)} :
        Applied("other_concat", d, copyFlag,
                [operand |-> operand, left |-> left])

\* the Signals the sequences start from: one-dimensional with a NaN; two
\* channels along axis 1 with per-channel lower bounds and a restricted
\* query range; two channels along axis 0 with per-channel lower bounds;
\* one-dimensional with domain_min alone
StartSignals ==
    {NewSignal(Arr1(<<R(1), NaN, R(3)>>), <<0, 2, 4>>, 0, <<"s">>,
               NoClip, NoClip, None, None, Kwargs(FALSE, -1)),
     NewSignal(Arr2(<<RSeq(<<1, 4>>), RSeq(<<2, 5>>), RSeq(<<3, 6>>)>>),
               <<0, 2, 4>>, 0, <<"a", "b">>,
               ListClip(RSeq(<<2, 0>>)), NoClip, Some(1), Some(3),
               Kwargs(TRUE, -1)),
     NewSignal(Arr2(<<RSeq(<<1, 2, 3>>), RSeq(<<4, 5, 6>>)>>),
               <<0, 2, 4>>, 1, <<"a", "b">>,
               ListClip(RSeq(<<0, 5>>)), ScalarClip(R(5)), None, None,
               Kwargs(FALSE, -1)),
     NewSignal(Arr1(RSeq(<<1, 2, 3>>)), <<0, 2, 4>>, 0, <<"s">>,
               NoClip, NoClip, Some(1), None, Kwargs(FALSE, -1))}

MoveAxisInputs == {<<0, 1>>, <<1, 1>>, <<0, 2>>}

Queries ==
    {ScalarQuery(2), ListQuery(<<2>>), ListQuery(<<0, 4>>),
     ListQuery(<<1, 3>>), ListQuery(<<0, 2, 4>>), ListQuery(<<-2, 6>>),
     ListQuery(<<0, 2>>), ListQuery(<<2, 4>>)}

\* <<domain_interval, method, extrapolate, copy>>
WindowFilterInputs ==
    {<<4, "savgol", FALSE, TRUE>>, <<4, "savgol", FALSE, FALSE>>,
     <<2, "savgol", FALSE, TRUE>>, <<8, "savgol", FALSE, TRUE>>,
     <<4, "boxcar", TRUE, TRUE>>, <<4, "boxcar", TRUE, FALSE>>,
     <<4, "boxcar", FALSE, TRUE>>, <<4, "boxcar", FALSE, FALSE>>}

Tail1 ==
    NewSignal(Arr1(RSeq(<<7, 8>>)), <<6, 8>>, 0, <<"s">>,
              NoClip, NoClip, None, None, Kwargs(FALSE, -1))
Tail2 ==
    NewSignal(Arr2(<<RSeq(<<7, 7>>), RSeq(<<8, 8>>)>>), <<6, 8>>, 0,
              <<"a", "b">>, NoClip, NoClip, None, None, Kwargs(FALSE, -1))

Tail3 ==
    NewSignal(Arr2(<<RSeq(<<7>>), RSeq(<<8>>)>>), <<6, 8>>, 0,
              <<"c">>, NoClip, NoClip, None, None, Kwargs(FALSE, -1))

Head2 ==
    NewSignal(Arr2(<<RSeq(<<7, 8>>), RSeq(<<9, 10>>)>>), <<-4, -2>>, 1,
              <<"a", "b">>, NoClip, NoClip, None, None, Kwargs(FALSE, -1))

\* <<operand, left, copy>>
DomainConcatInputs ==
    {<<SignalOperand(Tail1), FALSE, TRUE>>,
     <<SignalOperand(Tail2), FALSE, TRUE>>,
     <<SignalOperand(Tail2), FALSE, FALSE>>,
     <<SignalOperand(Tail2), TRUE, TRUE>>,
     <<SignalOperand(Head2), TRUE, TRUE>>,
     <<SignalOperand(Tail3), FALSE, TRUE>>,
     <<ArrayOperand(Arr1(RSeq(<<9>>))), TRUE, TRUE>>,
     <<ArrayOperand(Arr2(<<RSeq(<<9, 9>>)>>)), FALSE, TRUE>>,
     <<ArrayOperand(Arr2(<<RSeq(<<9, 9>>)>>)), TRUE, FALSE>>,
     <<OtherOperand, FALSE, TRUE>>}

Side1 ==
    NewSignal(Arr2(<<RSeq(<<7>>), RSeq(<<8>>), RSeq(<<9>>)>>), <<0, 2, 4>>, 0,
              <<"c">>, NoClip, NoClip, None, None, Kwargs(FALSE, -1))
Side2 ==
    NewSignal(Arr2(<<RSeq(<<7, 8>>)>>), <<2, 4>>, 1,
              <<"c">>, NoClip, NoClip, None, None, Kwargs(FALSE, -1))
Side0 ==
    NewSignal(Arr1(RSeq(<<7, 8, 9>>)), <<0, 2, 4>>, 0,
              <<"c">>, NoClip, NoClip, None, None, Kwargs(FALSE, -1))

\* <<operand, the receiver equalized as itself, left, copy>>
OtherConcatInputs ==
    {<<SignalOperand(Side1), FALSE, FALSE, TRUE>>,
     <<SignalOperand(Side1), FALSE, FALSE, FALSE>>,
     <<SignalOperand(Side1), TRUE, TRUE, FALSE>>,
     <<SignalOperand(Side2), FALSE, FALSE, TRUE>>,
     <<SignalOperand(Side0), FALSE, TRUE, TRUE>>,
     <<ArrayOperand(Arr2(<<RSeq(<<9>>), RSeq(<<9>>), RSeq(<<9>>)>>)),
       FALSE, FALSE, TRUE>>,
     <<ArrayOperand(Arr2(<<RSeq(<<9>>), RSeq(<<9>>), RSeq(<<9>>)>>)),
       FALSE, TRUE, FALSE>>,
     <<ArrayOperand(Arr2(<<RSeq(<<9, 9, 9>>)>>)), FALSE, FALSE, FALSE>>,
     <<LabelledOperand(Arr2(<<RSeq(<<9>>), RSeq(<<9>>), RSeq(<<9>>)>>),
                       Some(<<"x">>)), FALSE, TRUE, TRUE>>,
     <<LabelledOperand(Arr2(<<RSeq(<<9>>), RSeq(<<9>>), RSeq(<<9>>)>>),
                       Some(<<"x", "y">>)), FALSE, FALSE, TRUE>>,
     <<OtherOperand, FALSE, FALSE, TRUE>>}

InitSignal ==
    /\ cur \in StartSignals
    /\ pre = cur
    /\ post = cur
    /\ out = NoOutcome
    /\ steps = 0
    /\ ConIdle

NextSignal ==
    \/ DoT
    \/ \E a \in MoveAxisInputs : DoMoveAxis(a[1], a[2])
    \/ \E q \in Queries : DoCall(q)
    \/ DoNanless
    \/ \E w \in WindowFilterInputs : DoWindowFilter(w[1], w[2], w[3], w[4])
    \/ \E c \in DomainConcatInputs : DoDomainConcat(c[1], c[2], c[3])
    \/ \E c \in OtherConcatInputs : DoOtherConcat(c[1], c[2], c[3], c[4])
    \/ DoSetEntry

SpecSignal == InitSignal /\ [][NextSignal]_vars

\* the receiver has the values, domain and labels it had before the
\* operation
ReceiverKept ==
    /\ post.values = pre.values
    /\ post.domain = pre.domain
    /\ post.labels = pre.labels

\* C5: whatever the arguments, the operations leave the values, domain and
\* labels of the receiver as they were, a Signal they return is another
\* instance than the receiver, and after an entry of the returned Signal's
\* values is assigned the receiver still has the values, domain and labels
\* it had before the operation.
C5_ReceiverKeptAlways ==
    /\ out.op \in TransformOps
          => (ReceiverKept /\ (out.kind = "signal" => ~out.same))
    /\ out.op = "setitem" => ReceiverKept

\* with copy left True, the operations leave the values, domain and labels
\* of the receiver as they were, and a Signal they return is another
\* instance than the receiver
ReceiverKeptWhenCopying ==
    (out.op \in TransformOps /\ out.copy)
        => (ReceiverKept /\ (out.kind = "signal" => ~out.same))

\* an assignment to an entry of a result that has an array of its own
\* leaves the receiver as it was before the operation
SetEntryKeptInOwnArray ==
    (out.op = "setitem" /\ out.view = "none") => ReceiverKept

\* an assignment to an entry of a result that is a view of the receiver's
\* array changes the values of the receiver
SetEntrySeenThroughView ==
    (out.op = "setitem" /\ out.view # "none" /\ pre.values = post.values)
        => \E idx \in {SeenThrough(out.view, LastOfFirstRow(cur.values))} :
               IF pre.values.nd = 1 THEN pre.values.v[idx[1]] = Written
               ELSE pre.values.v[idx[1]][idx[2]] = Written

\* no assignment to an entry of the result of T or moveaxis has changed the
\* receiver (false: such a state is reached)
NoWriteThroughView ==
    ~(/\ out.op = "setitem" /\ out.view = "transposed" /\ ~out.same
      /\ post.values # pre.values)

\* C6: the length of the values along domain_axis equals the size of the
\* domain in every Signal the operations lead to.
C6_DomainLengthMatches == Len(cur.domain) = DomainLen(cur)

\* the clip bound is not list-like or has one entry per channel of s
ClipFits(s, clip) == clip.ck = "list" => Len(clip.lv) = OtherLen(s)

\* C7: a list-like signal_min or signal_max has length other_len in every
\* Signal the operations lead to.
C7_ClipLengthsMatch ==
    ClipFits(cur, cur.signal_min) /\ ClipFits(cur, cur.signal_max)

\* some coordinate of the query lies below domain_min or above domain_max
BeyondBounds(s, qv) ==
    \E i \in 1..Len(qv) :
        \/ ~IsNone(s.domain_min) /\ qv[i] < Get(s.domain_min)
        \/ ~IsNone(s.domain_max) /\ qv[i] > Get(s.domain_max)

\* C8: __call__ raises its domain-range error when some query coordinate
\* lies below domain_min or above domain_max, and not when the query lies
\* inside of the bounds.
C8_RaisesWhenBeyond ==
    out.op = "call"
        => (out.err = "DreyeError" <=> BeyondBounds(pre, out.q.qv))

\* __call__ raises its domain-range error exactly when domain_min is set and
\* the smallest query coordinate lies above it, or domain_max is set and the
\* largest query coordinate lies below it
RaisesUnlessCovering ==
    out.op = "call"
        => (out.err = "DreyeError"
              <=> \/ ~IsNone(pre.domain_min)
                       /\ SeqMin(out.q.qv) > Get(pre.domain_min)
                  \/ ~IsNone(pre.domain_max)
                       /\ SeqMax(out.q.qv) < Get(pre.domain_max))

\* no query inside of both bounds has been rejected (false: such a state is
\* reached)
NoneRejectedInside ==
    ~(/\ out.op = "call" /\ out.err = "DreyeError"
      /\ ~IsNone(pre.domain_min) /\ ~IsNone(pre.domain_max)
      /\ ~BeyondBounds(pre, out.q.qv))

\* no query with a coordinate outside of the bounds has been answered
\* (false: such a state is reached)
NoneAnsweredBeyond ==
    ~(out.op = "call" /\ ~out.raised /\ BeyondBounds(pre, out.q.qv))

\* the values of channel k of a Signal or an array along the domain axis
ChannelOf(values, domainAxis, k) ==
    IF values.nd = 1 THEN values.v ELSE Lane(values, domainAxis, k)

\* the values and the domain of `res` are those of a and the values bv along
\* the domain axis, in this order or, when left, in the other
Concatenated(res, a, bv, bAxis, n, left) ==
    /\ Len(res.domain) = Len(a.domain) + n
    /\ DomainLen(res) = Len(a.domain) + n
    /\ \A k \in 1..OtherLen(a) :
           ChannelOf(res.values, res.domain_axis, k)
               = IF left
                 THEN ChannelOf(bv, bAxis, k)
                          \o ChannelOf(a.values, a.domain_axis, k)
                 ELSE ChannelOf(a.values, a.domain_axis, k)
                          \o ChannelOf(bv, bAxis, k)

\* the array has the rank of the Signal a and, for two dimensions, as many
\* channels
ArrayFits(a, arr) ==
    /\ arr.nd = Ndim(a)
    /\ Ndim(a) = 2 => Shape(arr)[OtherAxis(a) + 1] = OtherLen(a)

\* C16: a.domain_concat(b) with a Signal b of the rank and channel count
\* of a returns a Signal whose domain and whose values along the domain axis
\* have len(a.domain) + len(b.domain) entries, the samples of b first when
\* left=True and last otherwise; with an array b of the rank and channel
\* count of a, the lengths are len(a.domain) plus the length of b along the
\* domain axis; a Signal or an array b of another rank or channel count is
\* rejected.
C16_DomainConcatLengths ==
    (out.op = "domain_concat" /\ Len(pre.domain) = DomainLen(pre)) =>
        /\ (out.q.operand.ok = "signal"
               /\ (Ndim(out.q.operand.sig) # Ndim(pre)
                     \/ OtherLen(out.q.operand.sig) # OtherLen(pre)))
              => out.raised
        /\ (out.q.operand.ok = "signal"
               /\ Ndim(out.q.operand.sig) = Ndim(pre)
               /\ OtherLen(out.q.operand.sig) = OtherLen(pre))
              => /\ out.kind = "signal"
                 /\ Concatenated(cur, pre, out.q.operand.sig.values,
                                 out.q.operand.sig.domain_axis,
                                 Len(out.q.operand.sig.domain), out.q.left)
        /\ (out.q.operand.ok = "array"
               /\ ~ArrayFits(pre, out.q.operand.arr))
              => out.raised
        /\ (out.q.operand.ok = "array" /\ ArrayFits(pre, out.q.operand.arr))
              => /\ out.kind = "signal"
                 /\ Concatenated(cur, pre, out.q.operand.arr, pre.domain_axis,
                                 Shape(out.q.operand.arr)[pre.domain_axis + 1],
                                 out.q.left)

\* a Signal with its domain along the other axis was put before a
\* two-channel Signal
C16_Witness ==
    /\ out.op = "domain_concat" /\ out.kind = "signal" /\ out.q.left
    /\ out.q.operand.ok = "signal"
    /\ out.q.operand.sig.domain_axis # pre.domain_axis
    /\ Len(pre.domain) = DomainLen(pre)
    /\ Len(cur.domain) = Len(pre.domain) + 2

\* the channels of a Signal or an array, each along the domain axis
Channels(values, domainAxis, n) ==
    [k \in 1..n |-> ChannelOf(values, domainAxis, k)]

\* a then b, or b then a when left
Joined(a, b, left) == IF left THEN b \o a ELSE a \o b

\* the labels other_concat gives an array operand of n channels
OperandLabels(operand, n) ==
    IF IsNone(operand.labels) THEN DefaultLabels(n) ELSE Get(operand.labels)

\* the number of channels of an array put beside the Signal a, which
\* other_concat expands to two dimensions first
OperandChannels(a, arr) ==
    Shape(arr)[OtherAxis(IF Ndim(a) = 1 THEN ExpandDims(a) ELSE a) + 1]

\* the values, domain and labels of the Signal agree in their lengths, and
\* an interpolation function it has cached was built from its values and
\* domain
WellFormed(s) ==
    /\ Len(s.domain) = DomainLen(s)
    /\ Len(s.labels) = OtherLen(s)
    /\ IsNone(s.interpolate)
         \/ (Get(s.interpolate).vals = s.values
               /\ Get(s.interpolate).dom = s.domain)

\* the Signal other_concat returned has n channels more than the receiver,
\* as many labels, and the labels of the receiver and `labels`, those first
\* when left
LabelledBeside(labels, n) ==
    /\ OtherLen(cur) = OtherLen(pre) + n
    /\ Len(cur.labels) = OtherLen(cur)
    /\ cur.labels = Joined(pre.labels, labels, out.q.left)

\* the Signal other_concat returned has the channels and labels of the
\* receiver and n channels `channels` with the labels `labels`, those first
\* when left
SideBySide(channels, labels, n) ==
    /\ LabelledBeside(labels, n)
    /\ Channels(cur.values, cur.domain_axis, OtherLen(cur))
          = Joined(Channels(pre.values, pre.domain_axis, OtherLen(pre)),
                   channels, out.q.left)

\* the Signal operand of the last other_concat: a Signal that is returned
\* has its channels and labels beside those of the receiver, the channels as
\* they are when it is over the domain of the receiver, and a Signal over
\* the domain of the receiver with its domain along the same axis, or a
\* one-dimensional one, is accepted
SignalBeside ==
    /\ out.kind = "signal"
          => LabelledBeside(out.q.operand.sig.labels,
                            OtherLen(out.q.operand.sig))
    /\ (out.kind = "signal" /\ pre.domain = out.q.operand.sig.domain)
          => SideBySide(Channels(out.q.operand.sig.values,
                                 out.q.operand.sig.domain_axis,
                                 OtherLen(out.q.operand.sig)),
                        out.q.operand.sig.labels,
                        OtherLen(out.q.operand.sig))
    /\ (pre.domain = out.q.operand.sig.domain
           /\ (Ndim(out.q.operand.sig) = 1
                 \/ out.q.operand.sig.domain_axis = pre.domain_axis))
          => out.kind = "signal"

\* the channels and labels of the array operand of the last other_concat
ArrayBeside ==
    SideBySide(Channels(out.q.operand.arr, pre.domain_axis,
                        OperandChannels(pre, out.q.operand.arr)),
               OperandLabels(out.q.operand,
                             OperandChannels(pre, out.q.operand.arr)),
               OperandChannels(pre, out.q.operand.arr))

\* C17: a.other_concat(b), on a Signal a whose values, domain, labels and
\* cached interpolation function agree, returns a Signal whose length along
\* the other axis is a.other_len + b.other_len, which has as many labels,
\* and whose labels and channels are those of a followed by those of b, or
\* those of b first when left=True: for a Signal b, and for an array b of as
\* many samples as a has, with the labels passed for it or, without, the
\* labels '0', '1', ....
C17_OtherConcatLengths ==
    (out.op = "other_concat" /\ WellFormed(pre)) =>
        /\ out.q.operand.ok = "signal" => SignalBeside
        /\ (out.q.operand.ok = "array" /\ out.q.operand.arr.nd = 2
               /\ Shape(out.q.operand.arr)[pre.domain_axis + 1]
                      = DomainLen(pre))
              => (out.kind = "signal" /\ ArrayBeside)

\* the same for arrays that are passed one label per channel or none
OtherConcatWhenLabelsFit ==
    (out.op = "other_concat" /\ WellFormed(pre)) =>
        /\ out.q.operand.ok = "signal" => SignalBeside
        /\ (out.q.operand.ok = "array" /\ out.q.operand.arr.nd = 2
               /\ Shape(out.q.operand.arr)[pre.domain_axis + 1]
                      = DomainLen(pre)
               /\ Len(OperandLabels(out.q.operand,
                                    OperandChannels(pre, out.q.operand.arr)))
                      = OperandChannels(pre, out.q.operand.arr))
              => (out.kind = "signal" /\ ArrayBeside)

\* no array has been put beside a Signal with more labels than it has
\* channels (false: such a state is reached)
NoSurplusLabels ==
    ~(/\ out.op = "other_concat" /\ out.kind = "signal" /\ WellFormed(pre)
      /\ out.q.operand.ok = "array"
      /\ Len(cur.labels) > OtherLen(cur))

\* no one-dimensional Signal has been put beside a two-dimensional one
\* (false: such a state is reached)
NoSignalBeside ==
    ~(/\ out.op = "other_concat" /\ out.kind = "signal" /\ WellFormed(pre)
      /\ out.q.operand.ok = "signal" /\ Ndim(out.q.operand.sig) = 1
      /\ Ndim(pre) = 2 /\ OtherLen(cur) = OtherLen(pre) + 1)

\* the values the cached interpolation function of s returns for a query
WrapperValues(s, q) ==
    ClipValues(InterpValues(Interpolant(Get(s.interpolate)), q),
               s.signal_min, s.signal_max)

\* C18: a __call__ that does not raise returns the bare values exactly when
\* the interpolated values have fewer axes than the Signal or one sample
\* along the domain axis; otherwise it returns another Signal with the
\* interpolated values and the query coordinates as its domain.
C18_ArrayWhenCollapsed ==
    (out.op = "call" /\ ~out.raised) =>
        \E v \in {WrapperValues(post, out.q)} :
            /\ out.kind \in {"array", "signal"}
            /\ out.kind = "array"
                  <=> (v.nd < Ndim(pre) \/ Shape(v)[pre.domain_axis + 1] = 1)
            /\ out.kind = "signal"
                  => /\ cur.values = v
                     /\ cur.domain = out.q.qv
                     /\ ~out.same

\* a query of one coordinate in a list gave the values of a two-dimensional
\* Signal, with both axes kept
C18_Witness ==
    /\ out.op = "call" /\ out.kind = "array"
    /\ out.q.qk = "list" /\ Len(out.q.qv) = 1
    /\ Ndim(pre) = 2
    /\ WrapperValues(post, out.q).nd = 2

---------------------------------------------------------------------------
(* Signal: resampling and clipping over a family of Signals *)

\* values, domain and domain axis of the Signals resampled: one sample;
\* one-dimensional; three samples of two channels along either axis; two
\* samples of two channels along either axis
ResampleShapes ==
    {<<Arr1(RSeq(<<5>>)), <<2>>, 0>>,
     <<Arr1(RSeq(<<1, 2, 3>>)), <<0, 2, 4>>, 0>>,
     <<Arr2(<<RSeq(<<1, 4>>), RSeq(<<2, 5>>), RSeq(<<3, 6>>)>>),
       <<0, 2, 4>>, 0>>,
     <<Arr2(<<RSeq(<<1, 2, 3>>), RSeq(<<4, 5, 6>>)>>), <<0, 2, 4>>, 1>>,
     <<Arr2(<<RSeq(<<1, 4>>), RSeq(<<2, 5>>)>>), <<0, 2>>, 0>>,
     <<Arr2(<<RSeq(<<1, 2>>), RSeq(<<4, 5>>)>>), <<0, 2>>, 1>>}

\* signal_min and signal_max tried: none, a scalar, one value per channel
ClipMins ==
    {NoClip, ScalarClip(R(0)), ScalarClip(R(2)), ListClip(RSeq(<<0>>)),
     ListClip(RSeq(<<0, 5>>))}
ClipMaxs ==
    {NoClip, ScalarClip(R(6)), ScalarClip(R(1)), ListClip(RSeq(<<6>>)),
     ListClip(RSeq(<<3, 6>>))}

\* the calls made on one of the Signals
MaxResamples == 1

\* <<domain_min, domain_max>> tried
DomainLimits == {<<None, None>>, <<Some(0), Some(2)>>, <<Some(-1), None>>}

ResampleSignals ==
    {s \in {NewSignal(sh[1], sh[2], sh[3],
                      IF sh[1].nd = 1 THEN <<"s">> ELSE <<"a", "b">>,
                      lo, hi, lim[1], lim[2], Kwargs(FALSE, -1)) :
                sh \in ResampleShapes, lo \in ClipMins, hi \in ClipMaxs,
                lim \in DomainLimits} : InitAccepts(s)}

\* queries within the samples of every Signal of more than one sample
ResampleQueries ==
    {ScalarQuery(1), ListQuery(<<1>>), ListQuery(<<0, 1>>),
     ListQuery(<<0, 1, 2>>)}

InitResample ==
    /\ cur \in ResampleSignals
    /\ pre = cur
    /\ post = cur
    /\ out = NoOutcome
    /\ steps = 0
    /\ ConIdle

\* s(s.domain); interp1d of some releases refuses a single sample
DoCallOwnDomain ==
    /\ steps < MaxResamples
    /\ \E refuses \in BOOLEAN :
       \E d \in {IF refuses /\ Len(cur.domain) < 2 /\ IsNone(cur.interpolate)
               THEN Raised(WithAxis(cur), "ValueError")
               ELSE CallOp(cur, ListQuery(cur.domain))} :
        Applied("call", d, TRUE, ListQuery(cur.domain))

\* s(query) for a query within the samples
DoResample(q) ==
    /\ steps < MaxResamples
    /\ Len(cur.domain) > 1
    /\ \A i \in 1..Len(q.qv) :
           cur.domain[1] <= q.qv[i] /\ q.qv[i] <= cur.domain[Len(cur.domain)]
    /\ DoCall(q)

\* Signal._clip_values(values, a_min, a_max) on the values of the Signal
ClipOp(s, lo, hi) ==
    IF ~ClipBroadcasts(s.values, lo, hi) THEN Raised(s, "ValueError")
    ELSE GaveArray(s, ClipValues(s.values, lo, hi))

DoClipValues(lo, hi) ==
    /\ steps < MaxResamples
    /\ \E d \in {ClipOp(cur, lo, hi)} :
        Applied("_clip_values", d, TRUE,
                [lo |-> lo, hi |-> hi, once |-> d.res])

NextResample ==
    \/ DoCallOwnDomain
    \/ \E q \in ResampleQueries : DoResample(q)
    \/ \E lo \in ClipMins, hi \in ClipMaxs : DoClipValues(lo, hi)

SpecResample == InitResample /\ [][NextResample]_vars

\* array_equal: arrays of one shape with equal entries
ArrayEqual(a, b) ==
    /\ a.nd = b.nd
    /\ Shape(a) = Shape(b)
    /\ a.v = b.v

\* a comparison that also wants the labels to be equal
SignalEq_WithLabels(a, b) ==
    a.domain = b.domain /\ ArrayEqual(a.values, b.values)
        /\ a.labels = b.labels

\* Signal.__eq__ (lines 1045-1047): the comparison of domains and values
SignalEq(a, b) == a.domain = b.domain /\ ArrayEqual(a.values, b.values)

\* the call was s(s.domain)
OnOwnDomain == out.op = "call" /\ out.q.qk = "list" /\ out.q.qv = pre.domain

\* C19: s(s.domain) returns a Signal equal to s, whatever the rank, the
\* number of samples, the clip bounds and domain_min / domain_max of s.
C19_RoundTrip ==
    OnOwnDomain => (out.kind = "signal" /\ SignalEq(cur, pre))

\* no per-channel bound lies along the domain axis of s
BoundsAlongChannels(s) ==
    (s.signal_min.ck = "list" \/ s.signal_max.ck = "list")
        => (Ndim(s) = 1 \/ s.domain_axis = 0)

\* every value of s lies within the bounds np.clip applies to it
WithinOwnBounds(s) ==
    ClipBroadcasts(s.values, s.signal_min, s.signal_max)
        /\ ClipValues(s.values, s.signal_min, s.signal_max) = s.values

\* the domain of s reaches from domain_min or below to domain_max or above
CoversLimits(s) == ~CallRejects(s, s.domain)

\* s(s.domain) returns a Signal equal to s when s has two samples or more,
\* values within its clip bounds, per-channel bounds along the last axis
\* and a domain that covers domain_min and domain_max
RoundTripWhenRegular ==
    (OnOwnDomain /\ Len(pre.domain) > 1 /\ Len(pre.domain) = DomainLen(pre)
       /\ BoundsAlongChannels(pre) /\ WithinOwnBounds(pre)
       /\ CoversLimits(pre))
        => (out.kind = "signal" /\ SignalEq(cur, pre))

\* the channel the entry at row i and column j of the values v returned for
\* the Signal s belongs to
ChannelAt(s, v, i, j) ==
    IF Ndim(s) = 1 THEN 1
    ELSE IF v.nd = 1 THEN j
    ELSE IF OtherAxis(s) = 0 THEN i ELSE j

\* x lies within the bounds of channel k of s
WithinChannel(s, x, k) ==
    /\ s.signal_min.ck # "none" => RLe(BoundAt(s.signal_min, k), x)
    /\ s.signal_max.ck # "none" => RLe(x, BoundAt(s.signal_max, k))

\* every entry of v lies within the bounds of its channel of s
WithinChannelBounds(s, v) ==
    IF v.nd = 0 THEN WithinChannel(s, v.v, 1)
    ELSE IF v.nd = 1
    THEN \A j \in 1..Len(v.v) :
             WithinChannel(s, v.v[j], ChannelAt(s, v, 1, j))
    ELSE \A i \in 1..Len(v.v) : \A j \in 1..Len(v.v[i]) :
             WithinChannel(s, v.v[i][j], ChannelAt(s, v, i, j))

\* signal_min and signal_max are both set, signal_min <= signal_max in
\* every channel
BoundsOrdered(s) ==
    /\ s.signal_min.ck # "none" /\ s.signal_max.ck # "none"
    /\ \A k \in 1..OtherLen(s) :
           RLe(BoundAt(s.signal_min, k), BoundAt(s.signal_max, k))

\* _clip_values on values it returned returns them again
ClippingIdempotent ==
    (out.op = "_clip_values" /\ ~out.raised)
        => /\ ClipBroadcasts(out.q.once, out.q.lo, out.q.hi)
           /\ ClipValues(out.q.once, out.q.lo, out.q.hi) = out.q.once

\* the values the interpolation function returned lie within the bounds of
\* their channels
WrapperWithinBounds ==
    (out.op = "call" /\ ~out.raised /\ BoundsOrdered(pre))
        => WithinChannelBounds(pre, WrapperValues(post, out.q))

\* C20: _clip_values applied to its own result returns it unchanged, for
\* bounds that are None, scalars or lists; and with signal_min <= signal_max
\* set, every value the cached interpolation function returns lies within
\* [signal_min, signal_max] of its channel.
C20_ClippingIdempotentAndWithin == ClippingIdempotent /\ WrapperWithinBounds

\* the same for Signals whose per-channel bounds lie along the last axis
WrapperWithinWhenAlongChannels ==
    (out.op = "call" /\ ~out.raised /\ BoundsOrdered(pre)
       /\ BoundsAlongChannels(pre))
        => WithinChannelBounds(pre, WrapperValues(post, out.q))

---------------------------------------------------------------------------
(* Signal: __eq__ *)

\* an instance of a class of Signals with its units and name
Typed(cls, units, name, sig) ==
    [cls |-> cls, units |-> units, name |-> name, sig |-> sig]

\* the attributes of the Signals compared: <<values, domain axis>>, domains,
\* and <<labels, signal_min, name>>
EqValues ==
    {<<Arr1(RSeq(<<1, 2, 3>>)), 0>>, <<Arr1(RSeq(<<1, 2, 4>>)), 0>>,
     <<Arr2(<<RSeq(<<1, 2, 3>>), RSeq(<<2, 5, 6>>), RSeq(<<3, 6, 7>>)>>), 0>>,
     <<Arr2(<<RSeq(<<1, 2, 3>>), RSeq(<<2, 5, 6>>), RSeq(<<3, 6, 7>>)>>), 1>>}
EqDomains == {<<0, 2, 4>>, <<0, 1, 2>>}
EqOthers ==
    {<<<<"a", "b", "c">>, NoClip, "n">>,
     <<<<"x", "y", "z">>, ScalarClip(R(0)), "m">>}

EqSignals ==
    {Typed(cls, units, o[3],
           NewSignal(v[1], d, v[2],
                     IF v[1].nd = 1 THEN <<o[1][1]>> ELSE o[1],
                     o[2], NoClip, None, None, Kwargs(FALSE, -1))) :
        cls \in {"Signal", "Spectrum"}, units \in {"volt", "ampere"},
        v \in EqValues, d \in EqDomains, o \in EqOthers}

\* Signal.__eq__ (lines 1039-1048)
EqOp(a, b) ==
    IF a.cls # b.cls THEN FALSE
    ELSE a.units = b.units /\ SignalEq(a.sig, b.sig)

InitEq ==
    /\ cur \in EqSignals
    /\ pre \in EqSignals
    /\ post = cur
    /\ out = NoOutcome
    /\ steps = 0
    /\ ConIdle

\* cur == pre
DoEq ==
    /\ steps < MaxResamples
    /\ steps' = steps + 1
    /\ out' = Outcome("__eq__", "", "bool", FALSE, TRUE, EqOp(cur, pre))
    /\ UNCHANGED <<cur, pre, post>>
    /\ UNCHANGED conVars

SpecEq == InitEq /\ [][DoEq]_vars

\* the two arrays have one shape and equal entries at every position
SameEntries(a, b) ==
    /\ a.nd = b.nd
    /\ Shape(a) = Shape(b)
    /\ \A i \in 1..Len(a.v) :
           IF a.nd = 1 THEN a.v[i] = b.v[i] /\ ~IsNaN(a.v[i])
           ELSE \A j \in 1..Len(a.v[i]) :
                    a.v[i][j] = b.v[i][j] /\ ~IsNaN(a.v[i][j])

\* C21: two Signals compare equal exactly when they are of one class and
\* have equal units, equal domains and equal values at every position;
\* labels, domain_axis, clip bounds and name take no part.
C21_EqualityOfSignals ==
    out.op = "__eq__" =>
        (out.q <=> /\ cur.cls = pre.cls
                   /\ cur.units = pre.units
                   /\ cur.sig.domain = pre.sig.domain
                   /\ SameEntries(cur.sig.values, pre.sig.values))

\* Signals of other labels, domain axis, clip bound and name compared equal
C21_Witness ==
    /\ out.op = "__eq__" /\ out.q
    /\ cur.sig.labels # pre.sig.labels
    /\ cur.sig.domain_axis # pre.sig.domain_axis
    /\ cur.sig.signal_min # pre.sig.signal_min
    /\ cur.name # pre.name

---------------------------------------------------------------------------
(* Signal: integral *)

\* Signal.integral (lines 518-528): np.trapz of the values against the
\* domain along the domain axis, one integral per channel
SignalIntegral(s) ==
    [k \in 1..Lanes(s) |-> Trapz(DomainLane(s, k), s.domain)]

IntegralLanes == {RSeq(<<a, b, c>>) : a \in 1..3, b \in 1..3, c \in 1..3}
IntegralDomains == {<<400, 500, 600>>, <<0, 2, 4>>, <<0, 1, 3>>}

\* one-dimensional Signals, and Signals of two channels along either axis
IntegralSignals ==
    {NewSignal(Arr1(y), d, 0, <<"s">>, NoClip, NoClip, None, None,
               Kwargs(FALSE, -1)) : y \in IntegralLanes, d \in IntegralDomains}
    \cup
    {NewSignal(FromLanes(<<y, RSeq(<<3, 2, 1>>)>>, axis), d, axis,
               <<"a", "b">>, NoClip, NoClip, None, None, Kwargs(FALSE, -1)) :
        y \in IntegralLanes, d \in IntegralDomains, axis \in {0, 1}}

InitIntegral ==
    /\ cur \in IntegralSignals
    /\ pre = cur
    /\ post = cur
    /\ out = NoOutcome
    /\ steps = 0
    /\ ConIdle

\* s.integral
DoIntegral ==
    /\ steps < MaxResamples
    /\ steps' = steps + 1
    /\ out' = Outcome("integral", "", "array", FALSE, TRUE,
                      SignalIntegral(cur))
    /\ UNCHANGED <<cur, pre, post>>
    /\ UNCHANGED conVars

SpecIntegral == InitIntegral /\ [][DoIntegral]_vars

\* the Signal has the domain [400, 500, 600] and the values [1, 2, 3] in its
\* first channel
IsTheExample(s) ==
    s.domain = <<400, 500, 600>> /\ DomainLane(s, 1) = RSeq(<<1, 2, 3>>)

\* C22 as stated: the integral of the values [1, 2, 3] over the domain
\* [400, 500, 600] is 300.
C22_IntegralIs300 ==
    (out.op = "integral" /\ IsTheExample(cur)) => out.q[1] = R(300)

\* C22, amended: Signal.integral is the trapezoidal integral of each channel
\* against the domain along the domain axis; for the values [1, 2, 3] over
\* the domain [400, 500, 600] it is 100 * 1.5 + 100 * 2.5 = 400.
C22_IntegralIs400 ==
    out.op = "integral" =>
        /\ Len(out.q) = Lanes(cur)
        /\ \A k \in 1..Lanes(cur) :
               \E y \in {DomainLane(cur, k)} :
                   RMul(R(2), out.q[k])
                       = RAdd(R((cur.domain[2] - cur.domain[1])
                                    * (y[1].n + y[2].n)),
                              R((cur.domain[3] - cur.domain[2])
                                    * (y[2].n + y[3].n)))
        /\ IsTheExample(cur) => out.q[1] = R(400)

\* the example was integrated as the first channel of a Signal with its
\* domain along axis 1
C22_Witness ==
    /\ out.op = "integral" /\ IsTheExample(cur)
    /\ Ndim(cur) = 2 /\ cur.domain_axis = 1
    /\ out.q[1] = R(400)

---------------------------------------------------------------------------
(* MeasuredSpectraContainer: the claims on the fitted channel *)

\* the one element of the container whose channel is fitted
Fitted == Elements[container[1]]

\* the zero boundary of e lies below its control inputs and zero is lower
ZeroBelow(e) ==
    /\ ~IsNone(e.zero_boundary) /\ e.zero_is_lower
    /\ RLt(Get(e.zero_boundary), SeqMinR(RSeq(e.labels)))

\* the zero boundary of e lies above its control inputs and zero is upper
ZeroAbove(e) ==
    /\ ~IsNone(e.zero_boundary) /\ ~e.zero_is_lower
    /\ RGt(Get(e.zero_boundary), SeqMaxR(RSeq(e.labels)))

\* the control inputs the mapper of e is to be fitted on
SamplesOf(e) ==
    IF ZeroBelow(e) THEN <<Get(e.zero_boundary)>> \o RSeq(e.labels)
    ELSE IF ZeroAbove(e) THEN RSeq(e.labels) \o <<Get(e.zero_boundary)>>
    ELSE RSeq(e.labels)

\* the mapper was built on the control inputs xs
BuiltOn(xs) ==
    /\ ~IsNone(cache.mapper)
    /\ Len(Get(cache.mapper)[1].ys) = Len(xs)
    /\ Range(Get(cache.mapper)[1].ys) = Range(xs)

\* C23: whenever map gets to build the mapper, _get_single_mapper completes
\* it on the control inputs with the zero boundary put first (zero is lower,
\* boundary below the inputs) or last (zero is upper, boundary above the
\* inputs), and on the control inputs as they are in every other case.
C23_ZeroPairCompletesMapper ==
    cout.op = "map" =>
        /\ cout.err # "AttributeError"
        /\ ~cout.raised => BuiltOn(SamplesOf(Fitted))

\* the same without the channels whose zero boundary lies above the inputs
ZeroPairUnlessAbove ==
    (cout.op = "map" /\ ~ZeroAbove(Fitted)) =>
        /\ cout.err # "AttributeError"
        /\ ~cout.raised => BuiltOn(SamplesOf(Fitted))

\* the pair was put first
ZeroPairPrepended ==
    ~(cout.op = "map" /\ ~cout.raised /\ ZeroBelow(Fitted)
        /\ BuiltOn(SamplesOf(Fitted)))


---------------------------------------------------------------------------
(* MeasuredSpectraContainer: bounds and boundaries as they are returned *)

\* the channels the bounds are read on: the named elements and, measured
\* with the intensities 1, 2, 3 at the control inputs 1, 2, 3, every choice
\* of boundaries and polarity
BoundsElementIds ==
    FixtureIds \cup {i \in CombinationIds :
                        Elements[i].spectra = <<SpectrumOf(FitLevels[1]),
                                                SpectrumOf(FitLevels[2]),
                                                SpectrumOf(FitLevels[3])>>}

\* the containers of one or two different such channels
BoundsContainers ==
    UNION {{c \in [1..n -> BoundsElementIds] :
              \A i \in 1..n : \A j \in 1..n : c[i] = c[j] => i = j} :
           n \in 1..MaxChannels}

InitBounds ==
    /\ container \in BoundsContainers
    /\ cache = InitAttrs
    /\ builds = 0
    /\ cout = COutcome("init", "", <<>>, <<>>)
    /\ SigIdle

\* container.bounds is read: the tuple (lower bounds, upper bounds)
DoBounds ==
    /\ \E b \in {Bounds(container, cache)} :
       /\ cache' = b.k
       /\ cout' = COutcome("bounds", b.err, <<>>,
                           IF b.err = "" THEN <<b.lo, b.hi>> ELSE <<>>)
    /\ UNCHANGED <<container, builds, sigVars>>

\* container.lower_boundary is read
DoLowerBoundary ==
    /\ \E d \in {LowerBoundary(container, cache)} :
       /\ cache' = d.k
       /\ cout' = COutcome("lower_boundary", d.err, <<>>, d.val)
    /\ UNCHANGED <<container, builds, sigVars>>

\* container.upper_boundary is read
DoUpperBoundary ==
    /\ \E d \in {UpperBoundary(container, cache)} :
       /\ cache' = d.k
       /\ cout' = COutcome("upper_boundary", d.err, <<>>, d.val)
    /\ UNCHANGED <<container, builds, sigVars>>

NextBounds == DoBounds \/ DoLowerBoundary \/ DoUpperBoundary

SpecBounds == InitBounds /\ [][NextBounds]_vars

\* the integrated intensities of the j-th channel of the container, one per
\* control input
ChannelIntensities(j) ==
    [i \in 1..Len(Eles(container)[j].spectra) |->
        Trapz(Eles(container)[j].spectra[i], Eles(container)[j].wl)]

\* the bounds the channels are to have: 0 or the smallest intensity below,
\* the largest intensity above
ExpectedBounds ==
    <<[j \in 1..Len(container) |->
         IF IsNone(Eles(container)[j].zero_boundary)
         THEN SeqMinR(ChannelIntensities(j)) ELSE R(0)],
      [j \in 1..Len(container) |-> SeqMaxR(ChannelIntensities(j))]>>

\* some channel has a zero boundary and some other has none
MixedZeroBoundaries ==
    /\ \E j \in 1..Len(container) : IsNone(Eles(container)[j].zero_boundary)
    /\ \E j \in 1..Len(container) : ~IsNone(Eles(container)[j].zero_boundary)

\* C24: reading bounds succeeds on every container, also on one that mixes
\* channels with and without a zero boundary, and gives for each channel the
\* lower bound 0 when it has a zero boundary, the smallest integrated
\* intensity when it has none, and the largest integrated intensity as the
\* upper bound.
C24_BoundsPerChannel ==
    cout.op = "bounds" => ~cout.raised /\ cout.res = ExpectedBounds

\* the same for the containers all of whose channels have a zero boundary
BoundsWhenAllZeroBoundaries ==
    (cout.op = "bounds"
        /\ \A j \in 1..Len(container) :
              ~IsNone(Eles(container)[j].zero_boundary)) =>
        ~cout.raised /\ cout.res = ExpectedBounds

\* bounds were returned for two channels with zero boundaries
BoundsReturned ==
    ~(cout.op = "bounds" /\ ~cout.raised /\ Len(container) = 2)

\* bounds of a container with a channel without zero boundary never return
BoundsFailWithoutZeroBoundary ==
    (cout.op = "bounds"
        /\ \E j \in 1..Len(container) :
              IsNone(Eles(container)[j].zero_boundary)) =>
        cout.err = "TypeError"


\* the boundary o of a channel, or the tested setting x when it is undefined
OrTested(o, x) == IF IsNone(o) THEN R(x) ELSE Get(o)

\* the lower boundary the element e is to have
ExpectedLower(e) ==
    IF e.zero_is_lower THEN OrTested(e.zero_boundary, SeqMin(e.labels))
    ELSE OrTested(e.max_boundary, SeqMin(e.labels))

\* the upper boundary the element e is to have
ExpectedUpper(e) ==
    IF e.zero_is_lower THEN OrTested(e.max_boundary, SeqMax(e.labels))
    ELSE OrTested(e.zero_boundary, SeqMax(e.labels))

\* C25: lower_boundary is, channel by channel, the zero boundary when zero is
\* lower and the max boundary when it is not, upper_boundary the other of
\* the two; an undefined boundary is replaced by the smallest tested setting
\* in lower_boundary and by the largest in upper_boundary.
C25_BoundariesByPolarity ==
    /\ cout.op = "lower_boundary" =>
          /\ ~cout.raised
          /\ cout.res = [j \in 1..Len(container) |->
                            ExpectedLower(Eles(container)[j])]
    /\ cout.op = "upper_boundary" =>
          /\ ~cout.raised
          /\ cout.res = [j \in 1..Len(container) |->
                            ExpectedUpper(Eles(container)[j])]

\* upper_boundary was read on a channel whose zero is lower and whose max
\* boundary is undefined, next to a channel whose zero is upper and defined
C25_Witness ==
    /\ cout.op = "upper_boundary" /\ ~cout.raised
    /\ Len(container) = 2
    /\ Eles(container)[1].zero_is_lower
    /\ IsNone(Eles(container)[1].max_boundary)
    /\ ~IsNone(Eles(container)[1].zero_boundary)
    /\ ~Eles(container)[2].zero_is_lower
    /\ ~IsNone(Eles(container)[2].zero_boundary)
    /\ cout.res[1] = R(3)
    /\ cout.res[2] = Get(Eles(container)[2].zero_boundary)


---------------------------------------------------------------------------
(* Signal: the window of window_filter *)

\* the window with the remainder of m itself added
WindowLength_NextEven(m) == m + (m % 2)

\* the window savgol_filter is given for the rounded ratio m (line 662)
WindowLength(m) == m + ((m + 1) % 2)

\* M % 1 != 0 for a ratio
IsFractional(r) == RTrunc(r) # r

\* Signal.window_filter (lines 635-698) for any domain_interval: the
\* assertion, the ratio, the warning and the rounding (lines 643-654), then
\* the filter on the rounded ratio; [d, warned, window]
WindowFilterRatio(s, domainInterval, method, extrapolate, copyFlag) ==
    IF ~IsUniform(s.domain)
    THEN [d |-> Raised(s, "AssertionError"), warned |-> FALSE, window |-> 0]
    ELSE Bind(RDiv(domainInterval, R(Interval(s.domain))), LAMBDA ratio :
             [d |-> WindowFilterOp(s, RTrunc(ratio).n * Interval(s.domain),
                                   method, extrapolate, copyFlag),
              warned |-> IsFractional(ratio),
              window |-> IF method = "savgol"
                         THEN WindowLength(RTrunc(ratio).n)
                         ELSE RTrunc(ratio).n])

\* five samples on a domain of interval 1, of interval 2, and on one that is
\* not uniform
WindowDomains == {<<0, 1, 2, 3, 4>>, <<0, 2, 4, 6, 8>>, <<0, 1, 3, 4, 6>>}
WindowSignals ==
    {NewSignal(Arr1(RSeq(<<a, b, c, 2, 1>>)), d, 0, <<"s">>, NoClip, NoClip,
               None, None, Kwargs(FALSE, -1)) :
        a \in 1..2, b \in 1..2, c \in 1..2, d \in WindowDomains}

\* the domain intervals asked for
DomainIntervals ==
    {R(k) : k \in 1..10} \cup {MkRat(k, 2) : k \in {1, 3, 5, 7, 9, 11, 13}}
        \cup {R(-3), MkRat(-5, 2)}

\* <<method, extrapolate>>
WindowMethods == {<<"savgol", FALSE>>, <<"boxcar", FALSE>>, <<"boxcar", TRUE>>}

InitWindow ==
    /\ cur \in WindowSignals
    /\ pre = cur
    /\ post = cur
    /\ out = Outcome("init", "", "none", FALSE, FALSE, <<>>)
    /\ steps = 0
    /\ ConIdle

\* signal.window_filter(domain_interval, method, extrapolate, copy)
DoWindowFilterRatio(domainInterval, method, extrapolate, copyFlag) ==
    /\ steps < MaxResamples
    /\ \E w \in {WindowFilterRatio(cur, domainInterval, method, extrapolate,
                                   copyFlag)} :
         /\ steps' = steps + 1
         /\ pre' = cur
         /\ post' = w.d.recv
         /\ cur' = IF w.d.kind = "signal" THEN w.d.res ELSE w.d.recv
         /\ out' = [op |-> "window_filter", raised |-> w.d.err # "",
                    err |-> w.d.err, kind |-> w.d.kind, same |-> w.d.same,
                    copy |-> copyFlag,
                    q |-> [domain_interval |-> domainInterval,
                           method |-> method],
                    warned |-> w.warned, window |-> w.window]
    /\ UNCHANGED conVars

NextWindow ==
    \E di \in DomainIntervals, m \in WindowMethods, c \in BOOLEAN :
        DoWindowFilterRatio(di, m[1], m[2], c)

SpecWindow == InitWindow /\ [][NextWindow]_vars

\* the whole numbers the ratios lie between
WholeNumbers == -20..20

\* k is the integer part of the ratio r: the whole number next to r on the
\* side of zero
IsIntegerPart(k, r) ==
    IF RLe(R(0), r) THEN RLe(R(k), r) /\ RLt(r, R(k + 1))
    ELSE RLt(R(k - 1), r) /\ RLe(r, R(k))

\* the ratio domain_interval / domain.interval of the last call
LastRatio == RDiv(out.q.domain_interval, R(Interval(pre.domain)))

\* C27: window_filter fails when the domain is not uniform.  On a uniform
\* domain it warns exactly when domain_interval / domain.interval is not a
\* whole number; with 'savgol' the window is M + ((M + 1) mod 2) for M the
\* integer part of the ratio, which is odd and the smallest odd number that
\* is at least M; and whether the call then fails depends on that window
\* alone, not on the ratio being fractional.
C27_WindowOfSavgol ==
    out.op = "window_filter" =>
        /\ ~IsUniform(pre.domain) => out.err = "AssertionError"
        /\ IsUniform(pre.domain) =>
             /\ out.warned <=> (\A k \in WholeNumbers : R(k) # LastRatio)
             /\ out.q.method = "savgol" =>
                  \E m \in WholeNumbers :
                     /\ IsIntegerPart(m, LastRatio)
                     /\ out.window = m + ((m + 1) % 2)
                     /\ out.window % 2 = 1
                     /\ m <= out.window /\ out.window <= m + 1
                     /\ out.raised <=>
                            ~(2 < out.window /\ out.window <= Len(pre.domain))

\* a fractional ratio 7/2 on a uniform domain warned, was rounded to the
\* window 3 and filtered; the next even ratio gave the window 5
C27_Witness ==
    /\ out.op = "window_filter" /\ ~out.raised /\ out.warned
    /\ out.q.method = "savgol"
    /\ LastRatio = MkRat(7, 2)
    /\ out.window = 3

\* a whole even ratio was filtered with the next odd window without warning
WindowOfEvenRatio ==
    ~(out.op = "window_filter" /\ ~out.raised /\ ~out.warned
        /\ out.q.method = "savgol" /\ LastRatio = R(4) /\ out.window = 5)


---------------------------------------------------------------------------
(* MeasuredSpectraContainer: fit and fit_map *)

RECURSIVE DotFrom(_, _, _)
DotFrom(a, b, i) ==
    IF i > Len(a) THEN R(0)
    ELSE RAdd(RMul(a[i], b[i]), DotFrom(a, b, i + 1))

\* np.dot of two vectors
Dot(a, b) == DotFrom(a, b, 1)

\* A @ x for the matrix whose columns are cols
MatVec(cols, x) ==
    [w \in 1..Len(cols[1]) |->
        Dot([j \in 1..Len(cols) |-> cols[j][w]], x)]

\* the squared residual of x
Residual(cols, b, x) ==
    Bind([w \in 1..Len(b) |-> RSub(MatVec(cols, x)[w], b[w])], LAMBDA r :
        Dot(r, r))

\* the minimiser of |a * x - b| over lo <= x <= hi
Lsq1(a, b, lo, hi) == Clip(RDiv(Dot(a, b), Dot(a, a)), lo, hi)

\* the minimiser over the box when x[j] is held at v: the other coordinate
\* solves its own one-dimensional problem
LsqOnEdge(cols, b, lo, hi, j, v) ==
    LET o == 3 - j
        rest == [w \in 1..Len(b) |-> RSub(b[w], RMul(cols[j][w], v))]
        xo == Lsq1(cols[o], rest, lo[o], hi[o])
    IN  IF j = 1 THEN <<v, xo>> ELSE <<xo, v>>

\* the minimiser of |A x - b| over the box for two independent columns: the
\* solution of the normal equations when it lies in the box, else the best
\* point of the four edges
Lsq2(cols, b, lo, hi) ==
    LET g11 == Dot(cols[1], cols[1])
        g12 == Dot(cols[1], cols[2])
        g22 == Dot(cols[2], cols[2])
        r1 == Dot(cols[1], b)
        r2 == Dot(cols[2], b)
        det == RSub(RMul(g11, g22), RMul(g12, g12))
        free == <<RDiv(RSub(RMul(g22, r1), RMul(g12, r2)), det),
                  RDiv(RSub(RMul(g11, r2), RMul(g12, r1)), det)>>
        inside == \A j \in 1..2 : RLe(lo[j], free[j]) /\ RLe(free[j], hi[j])
        edges == {LsqOnEdge(cols, b, lo, hi, j, v) :
                     j \in 1..2, v \in {lo[1], hi[1], lo[2], hi[2]}}
        onBox == {x \in edges :
                     \A j \in 1..2 : RLe(lo[j], x[j]) /\ RLe(x[j], hi[j])}
    IN  IF inside THEN free
        ELSE CHOOSE x \in onBox :
                 \A y \in onBox :
                     RLe(Residual(cols, b, x), Residual(cols, b, y))

\* the columns are linearly independent
Independent(cols) ==
    Len(cols) = 1
        \/ RMul(Dot(cols[1], cols[1]), Dot(cols[2], cols[2]))
               # RMul(Dot(cols[1], cols[2]), Dot(cols[1], cols[2]))

\* scipy.optimize.lsq_linear(A, b, bounds=(lo, hi)) for one column or two
\* independent columns: [err, x].  Each lower bound must be strictly less
\* than its upper bound.
LsqLinear(cols, b, lo, hi) ==
    IF Len(b) # Len(cols[1]) THEN [err |-> "ValueError", x |-> <<>>]
    ELSE IF \E j \in 1..Len(cols) : ~RLt(lo[j], hi[j])
    THEN [err |-> "ValueError", x |-> <<>>]
    ELSE IF Len(cols) = 1
    THEN [err |-> "", x |-> <<Lsq1(cols[1], b, lo[1], hi[1])>>]
    ELSE [err |-> "", x |-> Lsq2(cols, b, lo, hi)]

\* a target Spectrum over the wavelengths of the measurements
Target(nd, v, units) == [nd |-> nd, v |-> v, units |-> units]

\* the keyword arguments of fit
FitKwargs(returnRes, returnFit, units) ==
    [return_res |-> returnRes, return_fit |-> returnFit, units |-> units]

\* what fit returns (lines 580-587): the weights, or a tuple that starts
\* with them
FitReturn(kw, x, fitted) ==
    IF kw.return_res /\ kw.return_fit
    THEN [tuple |-> TRUE, weights |-> x, parts |-> <<"res", "fitted">>,
          fitted |-> fitted]
    ELSE IF kw.return_res
    THEN [tuple |-> TRUE, weights |-> x, parts |-> <<"res">>,
          fitted |-> <<>>]
    ELSE IF kw.return_fit
    THEN [tuple |-> TRUE, weights |-> x, parts |-> <<"fitted">>,
          fitted |-> fitted]
    ELSE [tuple |-> FALSE, weights |-> x, parts |-> <<>>, fitted |-> <<>>]

\* fit that returns the weights whatever the keywords
FitReturn_WeightsOnly(kw, x, fitted) ==
    [tuple |-> FALSE, weights |-> x, parts |-> <<>>, fitted |-> <<>>]

\* fit (lines 548-587): [k, err, ret, spectrum], spectrum being the target
\* after the call.  The target is copied before its units are set.
Fit(c, k, spectrum, kw) ==
    IF spectrum.nd # 1
    THEN [k |-> k, err |-> "AssertionError", ret |-> <<>>,
          spectrum |-> spectrum]
    ELSE Bind(WithNs(c, k), LAMBDA n :
        IF n.err # ""
        THEN [k |-> n.k, err |-> n.err, ret |-> <<>>, spectrum |-> spectrum]
        ELSE Bind(Bounds(c, n.k), LAMBDA b :
            IF b.err # ""
            THEN [k |-> b.k, err |-> b.err, ret |-> <<>>,
                  spectrum |-> spectrum]
            ELSE Bind(LsqLinear(Get(b.k.ns).cols, spectrum.v, b.lo, b.hi),
                      LAMBDA l :
                IF l.err # ""
                THEN [k |-> b.k, err |-> l.err, ret |-> <<>>,
                      spectrum |-> spectrum]
                ELSE [k |-> b.k, err |-> "", spectrum |-> spectrum,
                      ret |-> FitReturn(kw, l.x,
                                        MatVec(Get(b.k.ns).cols, l.x))])))

\* np.asarray of what fit returned, as map takes it: the weights as one
\* sample; a tuple with the OptimizeResult or with parts of unequal lengths
\* is no array of numbers; a tuple of weights and fitted spectrum of one
\* length is an array of two rows
AsValues(ret) ==
    IF ~ret.tuple THEN [err |-> FALSE, values |-> Arr1(ret.weights)]
    ELSE IF ret.parts # <<"fitted">> \/ Len(ret.fitted) # Len(ret.weights)
    THEN [err |-> TRUE, values |-> <<>>]
    ELSE [err |-> FALSE, values |-> Arr2(<<ret.weights, ret.fitted>>)]

\* fit_map (lines 589-597): [k, err, ret, res, built]
FitMap(c, k, spectrum, kw, raggedError) ==
    Bind(Fit(c, k, spectrum, kw), LAMBDA f :
        IF f.err # ""
        THEN [k |-> f.k, err |-> f.err, ret |-> <<>>, res |-> <<>>,
              built |-> FALSE]
        ELSE IF AsValues(f.ret).err
        THEN [k |-> f.k, err |-> raggedError, ret |-> f.ret, res |-> <<>>,
              built |-> FALSE]
        ELSE Bind(MapValues(c, f.k, AsValues(f.ret).values), LAMBDA m :
                 [k |-> m.k, err |-> m.err, ret |-> f.ret, res |-> m.res,
                  built |-> m.built]))

\* the targets: spectra over the two wavelengths, and a two-dimensional one
Targets ==
    {Target(1, <<R(a), R(b)>>, "uE") : a \in {0, 1, 3}, b \in {0, 3}}
        \cup {Target(1, <<R(1), R(1)>>, "W")}
        \cup {Target(2, <<<<R(1)>>, <<R(1)>>>>, "uE")}

KwargsOfFit ==
    {FitKwargs(r, f, u) : r \in BOOLEAN, f \in BOOLEAN, u \in BOOLEAN}

\* containers of one channel, and of two channels whose normalized spectra
\* are independent (the least-squares solution is unique)
LsqContainers ==
    {c \in Containers :
        /\ Len(c) \in 1..2
        /\ Independent(Get(WithNs(c, InitAttrs).k.ns).cols)}

\* the target spectrum is held in cur, and in post as it is after the call
InitLsq ==
    /\ container \in LsqContainers
    /\ cache = InitAttrs
    /\ builds = 0
    /\ cout = COutcome("init", "", <<>>, <<>>)
    /\ cur \in Targets
    /\ pre = cur
    /\ post = cur
    /\ out = <<>>
    /\ steps = 0

\* container.fit(spectrum, **kw)
DoFit(kw) ==
    /\ \E f \in {Fit(container, cache, cur, kw)} :
       /\ cache' = f.k
       /\ post' = f.spectrum
       /\ cout' = COutcome("fit", f.err, kw, f.ret)
    /\ pre' = cur
    /\ UNCHANGED <<container, builds, cur, out, steps>>

\* container.fit_map(spectrum, **kw); what np.asarray does with a tuple
\* that is no array of numbers depends on the numpy at hand: ValueError, or
\* an object array that the comparison with the bounds rejects
DoFitMap(kw) ==
    /\ \E e \in {"ValueError", "TypeError"} :
       \E f \in {FitMap(container, cache, cur, kw, e)} :
       /\ cache' = f.k
       /\ builds' = IF f.built /\ builds < MaxBuilds THEN builds + 1
                    ELSE builds
       /\ cout' = COutcomeB("fit_map", f.err, kw,
                            [ret |-> f.ret, res |-> f.res], f.built)
    /\ pre' = cur
    /\ post' = cur
    /\ UNCHANGED <<container, cur, out, steps>>

NextLsq == \E kw \in KwargsOfFit : DoFit(kw) \/ DoFitMap(kw)

SpecLsq == InitLsq /\ [][NextLsq]_vars


\* the weights lie within the bounds of their channels, one per channel
WeightsWithinBounds(w) ==
    /\ Len(w) = Len(container)
    /\ \A j \in 1..Len(container) :
          /\ RLe(ExpectedBounds[1][j], w[j])
          /\ RLe(w[j], ExpectedBounds[2][j])

\* C26: fit, when it returns, gives one weight per channel within the
\* channel's bounds and leaves the target spectrum as it was; and fit_map,
\* whenever its fit returned, with whatever keywords, does not fail on what
\* it hands to map: neither the bounds precondition of map nor the
\* conversion of the values to an array rejects it.
C26_FitMapAcceptsWeights ==
    /\ (cout.op = "fit" /\ ~cout.raised) =>
          /\ WeightsWithinBounds(cout.res.weights)
          /\ post = pre
    /\ (cout.op = "fit_map" /\ cout.res.ret # <<>>) =>
          /\ WeightsWithinBounds(cout.res.ret.weights)
          /\ cout.err \notin {"AssertionError", "ValueError", "TypeError"}

\* the same for fit_map called without return_res and return_fit
FitMapOfPlainWeights ==
    /\ (cout.op = "fit" /\ ~cout.raised) =>
          /\ WeightsWithinBounds(cout.res.weights)
          /\ post = pre
    /\ (cout.op = "fit_map" /\ cout.res.ret # <<>>
           /\ ~cout.arg.return_res /\ ~cout.arg.return_fit) =>
          /\ WeightsWithinBounds(cout.res.ret.weights)
          /\ cout.err \notin {"AssertionError", "ValueError", "TypeError"}

\* with return_res or return_fit, fit_map never returns unless the tuple of
\* weights and fitted spectrum happens to be a rectangular array
FitMapOfTupleFails ==
    (cout.op = "fit_map" /\ cout.res.ret # <<>>
        /\ (cout.arg.return_res \/ cout.arg.return_fit)) =>
        \/ cout.raised
        \/ /\ ~cout.arg.return_res
           /\ Len(container) = Len(cout.res.ret.fitted)

\* fit_map mapped the weights of two channels, one of them at its bound
FitMapReturned ==
    ~(cout.op = "fit_map" /\ ~cout.raised /\ Len(container) = 2
        /\ ~cout.arg.return_fit
        /\ cout.res.ret.weights[1] = ExpectedBounds[1][1]
        /\ cout.res.ret.weights[2] # ExpectedBounds[1][2]
        /\ cout.res.ret.weights[2] # ExpectedBounds[2][2])

\* the precondition of map failed on the tuple fit returned
FitMapAssertion ==
    ~(cout.op = "fit_map" /\ cout.err = "AssertionError"
        /\ cout.res.ret # <<>>)


---------------------------------------------------------------------------
(* MeasuredSpectraContainer: the claims on what map returns *)

\* C28: what map returns has the shape of what it was given: samples by
\* channels for a two-dimensional input, one entry per channel for a
\* one-dimensional input of one sample.
C28_MapPreservesShape ==
    (cout.op = "map" /\ ~cout.raised) =>
        /\ cout.res.nd = cout.arg.nd
        /\ Shape(cout.res) = Shape(cout.arg)

\* the same for two-dimensional inputs only
MapPreservesShapeOf2d ==
    (cout.op = "map" /\ ~cout.raised /\ cout.arg.nd = 2) =>
        /\ cout.res.nd = 2
        /\ Shape(cout.res) = Shape(cout.arg)

\* a one-dimensional input of one sample comes back as one row of a
\* two-dimensional array
MapOf1dIsOneRow ==
    (cout.op = "map" /\ ~cout.raised /\ cout.arg.nd = 1) =>
        /\ cout.res.nd = 2
        /\ Shape(cout.res) = <<1, Len(cout.arg.v)>>

\* two samples of two channels were mapped
MapOf2dReturned ==
    ~(cout.op = "map" /\ ~cout.raised /\ Shape(cout.arg) = <<2, 2>>)


\* the smallest and the largest intensity the mapper of the fitted channel
\* was fitted with
LowestFitted == SeqMinR(Get(cache.mapper)[1].xs)
HighestFitted == SeqMaxR(Get(cache.mapper)[1].xs)

\* every mapped intensity below the fitted ones gave the control input
\* below, every one above them the control input above
ClampsTo(below, above) ==
    \A r \in 1..Len(cout.arg.v) :
        /\ RLt(cout.arg.v[r][1], LowestFitted) => cout.res.v[r][1] = below
        /\ RGt(cout.arg.v[r][1], HighestFitted) => cout.res.v[r][1] = above

\* the boundaries of the fitted channel are in order
BoundariesInOrder(d) == RLe(d.lower[1], d.upper[1])

\* C29: on a channel whose zero is upper (and whose boundaries are in
\* order), an accepted intensity below the fitted intensities is mapped to
\* upper_boundary and one above them to lower_boundary, and of two accepted
\* intensities the larger is not mapped to the larger control input; on a
\* channel whose zero is lower, an intensity below the fitted ones is mapped
\* to lower_boundary and one above them to upper_boundary.
C29_ClampsOnZeroSide ==
    (cout.op = "map" /\ ~cout.raised) =>
        \E d \in {Boundaries(container, InitAttrs)} :
            BoundariesInOrder(d) =>
                IF Fitted.zero_is_lower
                THEN ClampsTo(d.lower[1], d.upper[1])
                ELSE /\ ClampsTo(d.upper[1], d.lower[1])
                     /\ RGe(cout.res.v[1][1], cout.res.v[2][1])

\* the same for the channels whose zero is lower only
ClampsWhenZeroIsLower ==
    (cout.op = "map" /\ ~cout.raised /\ Fitted.zero_is_lower) =>
        \E d \in {Boundaries(container, InitAttrs)} :
            BoundariesInOrder(d) => ClampsTo(d.lower[1], d.upper[1])

\* what the code does on a channel whose zero is upper: the intensity below
\* the fitted ones goes to lower_boundary, the one above to upper_boundary
ClampsSameWayWhenZeroIsUpper ==
    (cout.op = "map" /\ ~cout.raised /\ ~Fitted.zero_is_lower) =>
        \E d \in {Boundaries(container, InitAttrs)} :
            BoundariesInOrder(d) => ClampsTo(d.lower[1], d.upper[1])

\* an intensity above the fitted ones was clamped on a channel whose zero is
\* lower, and one below them
ClampedAbove ==
    ~(cout.op = "map" /\ ~cout.raised /\ Fitted.zero_is_lower
        /\ RGt(cout.arg.v[2][1], HighestFitted)
        /\ RLt(cout.arg.v[1][1], LowestFitted)
        /\ RLt(cout.res.v[1][1], cout.res.v[2][1]))


---------------------------------------------------------------------------
(* MeasuredSpectrum: polarity and boundaries *)

\* the zero boundary and the max boundary of e are both defined
BothBoundaries(e) == ~IsNone(e.zero_boundary) /\ ~IsNone(e.max_boundary)

\* zero_is_lower of e says what its boundaries say
PolarityAgrees(e) ==
    e.zero_is_lower = RLt(Get(e.zero_boundary), Get(e.max_boundary))

\* C30: every constructed MeasuredSpectrum with both boundaries defined,
\* also one that was given zero_is_lower, has zero_is_lower =
\* (zero_boundary < max_boundary), and the lower boundary a container reports
\* for it is not above the upper boundary.
C30_PolarityAgreesWithBoundaries ==
    (cout.op = "construct" /\ ~cout.raised) =>
        /\ BothBoundaries(cout.res) => PolarityAgrees(cout.res)
        /\ RLe(ExpectedLower(cout.res), ExpectedUpper(cout.res))

\* the same for the MeasuredSpectrum constructed without zero_is_lower
PolarityAgreesWhenDerived ==
    (cout.op = "construct" /\ ~cout.raised
        /\ IsNone(cout.arg.zero_is_lower)) =>
        /\ BothBoundaries(cout.res) /\ PolarityAgrees(cout.res)
        /\ RLe(ExpectedLower(cout.res), ExpectedUpper(cout.res))

\* a given zero_is_lower is stored as it is, whatever the boundaries
GivenPolarityStored ==
    (cout.op = "construct" /\ ~cout.raised
        /\ ~IsNone(cout.arg.zero_is_lower)) =>
        cout.res.zero_is_lower = Get(cout.arg.zero_is_lower)

\* in a container the lower boundary of no channel is above the upper one
LowerNotAboveUpper ==
    cout.op = "lower_boundary" =>
        \E d \in {Boundaries(container, InitAttrs)} :
            \A j \in 1..Len(container) : RLe(d.lower[j], d.upper[j])

=============================================================================
